---- MODULE Spec2Model ----
(***************************************************************************)
(* Range aggregation of the SIA dashboard (BoLibOde/SIA).                  *)
(*                                                                         *)
(* Three generations of the same page are modelled:                        *)
(*   "app"  the single-file app            (unnamed/part_000, l. 210-701)  *)
(*   "v2"   Kirill_Website2.0.1: dataLoader.js + lautstaerke.js            *)
(*          (unnamed/part_000, l. 29-209) + paths.js                       *)
(*   "v1"   Kirill_Website: dataLoader.js (unnamed/part_001, l. 149-405)   *)
(*          + lautstaerke.js                                               *)
(* A loader is an async function: every await of a fetch is one step of    *)
(* the run, so that runs of different loaders interleave at their awaits.  *)
(* Temperatures and dB readings are integers; the clock is read as one     *)
(* date for the whole page session.                                        *)
(***************************************************************************)
EXTENDS Integers, Sequences, FiniteSets, TLC

(***************************************************************************)
(* JavaScript values.  Every value is a record of one shape, so that any   *)
(* two of them can be compared: t is the type tag, n the number, s the     *)
(* characters of a string (decimal digits; -1 is the minus sign, -2 the    *)
(* text "NaN", -3 the text "undefined").                                   *)
(***************************************************************************)
Num(n) == [t |-> "num", n |-> n, s |-> <<>>]
NaN == [t |-> "nan", n |-> 0, s |-> <<>>]
Undef == [t |-> "undef", n |-> 0, s |-> <<>>]
Str(s) == [t |-> "str", n |-> 0, s |-> s]

\* typeof v === "number"
IsNumber(v) == v.t \in {"num", "nan"}

\* String(n) for an integer n
RECURSIVE Digits(_)
Digits(n) == IF n < 0 THEN <<-1>> \o Digits(-n)
             ELSE IF n < 10 THEN <<n>>
             ELSE Digits(n \div 10) \o <<n % 10>>

\* String(v)
ToStr(v) == CASE v.t = "num" -> Digits(v.n)
              [] v.t = "nan" -> <<-2>>
              [] v.t = "undef" -> <<-3>>
              [] OTHER -> v.s

RECURSIVE DigitsValue(_)
DigitsValue(s) == IF s = <<>> THEN 0
                  ELSE 10 * DigitsValue(SubSeq(s, 1, Len(s) - 1)) + s[Len(s)]

\* Number(v): a string of digits parses to its value, "" to 0, any other
\* string and undefined to NaN
ToNumber(v) == CASE v.t = "num" -> v
                 [] v.t = "str" ->
                      IF \A i \in 1..Len(v.s) : v.s[i] \in 0..9
                      THEN Num(DigitsValue(v.s))
                      ELSE IF Len(v.s) > 1 /\ v.s[1] = -1
                              /\ \A i \in 2..Len(v.s) : v.s[i] \in 0..9
                      THEN Num(0 - DigitsValue(Tail(v.s)))
                      ELSE NaN
                 [] OTHER -> NaN

\* isNaN(v)
IsNaN(v) == ToNumber(v).t = "nan"

\* a + b
JsAdd(a, b) == IF a.t = "str" \/ b.t = "str" THEN Str(ToStr(a) \o ToStr(b))
               ELSE IF a.t = "num" /\ b.t = "num" THEN Num(a.n + b.n)
               ELSE NaN

\* truthiness of v
Truthy(v) == CASE v.t = "num" -> v.n # 0
               [] v.t = "str" -> v.s # <<>>
               [] OTHER -> FALSE

\* a || b
JsOr(a, b) == IF Truthy(a) THEN a ELSE b

\* a ?? b
Nullish(a, b) == IF a.t = "undef" THEN b ELSE a

\* Math.round(x) of the rational s / n, n > 0: the nearest integer, a half
\* rounded towards plus infinity
RoundDiv(s, n) == (2 * s + n) \div (2 * n)

\* Math.round(a / b) on JavaScript values, b a positive number
JsRoundDiv(a, b) ==
    LET x == ToNumber(a)
        y == ToNumber(b)
    IN IF x.t = "num" /\ y.t = "num" /\ y.n > 0 THEN Num(RoundDiv(x.n, y.n))
       ELSE NaN

\* Math.round(v)
JsRound(v) == ToNumber(v)

(***************************************************************************)
(* Calendar: what new Date(), getDay(), setDate() and                      *)
(* new Date(y, m, 0).getDate() compute.                                    *)
(***************************************************************************)
Date(y, m, d) == [y |-> y, m |-> m, d |-> d]

IsLeap(y) == (y % 4 = 0 /\ y % 100 # 0) \/ y % 400 = 0

\* new Date(y, m, 0).getDate(): the number of days of month m (1..12)
DaysInMonth(y, m) == IF m = 2 THEN (IF IsLeap(y) THEN 29 ELSE 28)
                     ELSE IF m \in {4, 6, 9, 11} THEN 30 ELSE 31

\* days since 1970-01-01
DaysFromCivil(dt) ==
    LET y == IF dt.m <= 2 THEN dt.y - 1 ELSE dt.y
        era == y \div 400
        yoe == y - era * 400
        mp == (dt.m + 9) % 12
        doy == (153 * mp + 2) \div 5 + dt.d - 1
        doe == yoe * 365 + yoe \div 4 - yoe \div 100 + doy
    IN era * 146097 + doe - 719468

\* getDay(): 0 = Sunday .. 6 = Saturday
GetDay(dt) == (DaysFromCivil(dt) + 4) % 7

\* d.setDate(d.getDate() + 1)
NextDate(dt) ==
    IF dt.d < DaysInMonth(dt.y, dt.m) THEN Date(dt.y, dt.m, dt.d + 1)
    ELSE IF dt.m < 12 THEN Date(dt.y, dt.m + 1, 1)
    ELSE Date(dt.y + 1, 1, 1)

PrevDate(dt) ==
    IF dt.d > 1 THEN Date(dt.y, dt.m, dt.d - 1)
    ELSE IF dt.m > 1 THEN Date(dt.y, dt.m - 1, DaysInMonth(dt.y, dt.m - 1))
    ELSE Date(dt.y - 1, 12, 31)

\* dt.setDate(dt.getDate() - k), k >= 0
RECURSIVE MinusDays(_, _)
MinusDays(dt, k) == IF k = 0 THEN dt ELSE MinusDays(PrevDate(dt), k - 1)

\* the week taken to begin on Sunday: today.getDate() - dayOfWeek
MondayOf_SundayStart(today) == MinusDays(today, GetDay(today))

\* monday.setDate(today.getDate() - ((dayOfWeek + 6) % 7))
MondayOf(today) == MinusDays(today, (GetDay(today) + 6) % 7)

\* d <= today on two Date objects of the same time of day
DateLE(a, b) == DaysFromCivil(a) <= DaysFromCivil(b)

(***************************************************************************)
(* JSON documents.  A daily record is an object whose fields may be        *)
(* absent (Undef); asd says whether the object avg_sensor_day is present,  *)
(* temp, ndb and voc are its fields temp, db and voc, db is the top-level  *)
(* field db.  A parsed document is the object or the JSON value null.      *)
(***************************************************************************)
Obj(good, meh, bad, asd, temp, ndb, voc, db) ==
    [good |-> good, meh |-> meh, bad |-> bad, asd |-> asd,
     temp |-> temp, ndb |-> ndb, voc |-> voc, db |-> db]

EmptyObj == Obj(Undef, Undef, Undef, FALSE, Undef, Undef, Undef, Undef)

JsonObj(o) == [k |-> "obj", o |-> o]
JsNull == [k |-> "null", o |-> EmptyObj]

\* totals.avg_sensor_day?.temp, totals.avg_sensor_day?.db, ...?.voc
NestedTemp(o) == IF o.asd THEN o.temp ELSE Undef
NestedDb(o) == IF o.asd THEN o.ndb ELSE Undef
NestedVoc(o) == IF o.asd THEN o.voc ELSE Undef

(***************************************************************************)
(* HTTP.  A response either never arrives (fetch rejects), or has a status *)
(* (ok = 2xx) and a body that is JSON text or not.                         *)
(***************************************************************************)
Response(throws, ok, json, doc) ==
    [throws |-> throws, ok |-> ok, json |-> json, doc |-> doc]

NetErr == Response(TRUE, FALSE, FALSE, JsNull)
NotFound == Response(FALSE, FALSE, FALSE, JsNull)
BadJson == Response(FALSE, TRUE, FALSE, JsNull)
ErrJson(o) == Response(FALSE, FALSE, TRUE, JsonObj(o))
Ok(o) == Response(FALSE, TRUE, TRUE, JsonObj(o))

\* String(n) of a day or month number, as padZero builds it
padZero(n) == IF n < 10 THEN <<0>> \o Digits(n) ELSE Digits(n)

\* the text of a path: the directory, and for a dated file the year and the
\* padded month and day
DatedPath(dir, y, m, d) == [dir |-> dir, dated |-> TRUE, y |-> y, m |-> m, d |-> d]
BasePath(dir) == [dir |-> dir, dated |-> FALSE, y |-> 0, m |-> <<>>, d |-> <<>>]

BASE_DATA_PATH == "common/data"

\* makeTotalsPath(deviceName, year, month, day) of the app
makeTotalsPath(deviceName, year, month, day) ==
    DatedPath(<<BASE_DATA_PATH, deviceName>>, year, month, day)

(***************************************************************************)
(* State of one page session.                                              *)
(***************************************************************************)
VARIABLES
    page,               \* which generation of the page is loaded
    today,              \* new Date(): the calendar date of the session
    files,              \* the static file hierarchy: path -> response
    domReady,           \* the DOMContentLoaded handlers have run
    currentTimeRange,   \* "now" | "day" | "week" | "month" | "year"
    currentDevice,      \* app: the selected device folder ("" = none)
    currentDepartment,  \* v1, v2: the selected department / device folder
    fetchCache,         \* app: url -> parsed JSON
    ui,                 \* charts, total fields, indicators, loader overlay
    runs,               \* the loader runs in flight, each at an await
    timers,             \* pending setTimeout callbacks
    clicks              \* number of user clicks so far

vars == <<page, today, files, domReady, currentTimeRange, currentDevice,
          currentDepartment, fetchCache, ui, runs, timers, clicks>>

\* what the server answers to a GET of url
Server(url) == IF url \in DOMAIN files THEN files[url] ELSE NotFound

(***************************************************************************)
(* Display: level and air-quality indicators, charts and total fields.     *)
(***************************************************************************)
lautstaerkeLevels ==
    << [iconId |-> "icon-maus", name |-> "Maus", min |-> 0, max |-> 30],
       [iconId |-> "icon-sprechen", name |-> "Sprechen", min |-> 31, max |-> 50],
       [iconId |-> "icon-musik", name |-> "Musik", min |-> 51, max |-> 70],
       [iconId |-> "icon-auto", name |-> "Auto", min |-> 71, max |-> 90],
       [iconId |-> "icon-flugzeug", name |-> "Flugzeug", min |-> 91, max |-> 200] >>

InLevel_MaxExclusive(l, dbValue) ==
    LET x == ToNumber(dbValue)
    IN x.t = "num" /\ x.n >= l.min /\ x.n < l.max

\* l => dbValue >= l.min && dbValue <= l.max (a comparison with NaN is false)
InLevel(l, dbValue) ==
    LET x == ToNumber(dbValue)
    IN x.t = "num" /\ x.n >= l.min /\ x.n <= l.max

\* lautstaerkeLevels.find(...): the index of the first band that matches, 0
\* when none does
FindLevel(dbValue) ==
    LET hits == {i \in 1..Len(lautstaerkeLevels) :
                    InLevel(lautstaerkeLevels[i], dbValue)}
    IN IF hits = {} THEN 0
       ELSE CHOOSE i \in hits : \A j \in hits : i <= j

NoLabel == "-"

updateLautstaerkeAnzeige(u, dbValue) ==
    LET i == FindLevel(dbValue)
    IN IF i # 0
       THEN [u EXCEPT !.laut = {lautstaerkeLevels[i].iconId},
                      !.lautText = [db |-> ToStr(dbValue),
                                    name |-> lautstaerkeLevels[i].name]]
       ELSE [u EXCEPT !.laut = {},
                      !.lautText = [db |-> ToStr(dbValue), name |-> NoLabel]]

\* aqi <= k (a comparison with NaN is false)
JsLE(v, k) == LET x == ToNumber(v) IN x.t = "num" /\ x.n <= k

\* the update without classList.remove("active"): an indicator once active
\* stays active
updateLuftQualitaet_NoRemove(u, aqi) ==
    IF JsLE(aqi, 50) THEN [u EXCEPT !.luft = u.luft \cup {"good"}]
    ELSE IF JsLE(aqi, 100) THEN [u EXCEPT !.luft = u.luft \cup {"moderate"}]
    ELSE [u EXCEPT !.luft = u.luft \cup {"bad"}]

\* updateLuftQualitaet(aqi): all three indicators lose "active", then the
\* indicator of the band gets it
updateLuftQualitaet(u, aqi) ==
    IF JsLE(aqi, 50) THEN [u EXCEPT !.luft = {"good"}]
    ELSE IF JsLE(aqi, 100) THEN [u EXCEPT !.luft = {"moderate"}]
    ELSE [u EXCEPT !.luft = {"bad"}]

showLoader(u) == [u EXCEPT !.loader = "flex"]
hideLoader(u) == [u EXCEPT !.loader = "none"]

\* element.textContent = v: undefined clears the text
Text(v) == IF v.t = "undef" THEN Str(<<>>) ELSE Str(ToStr(v))

\* updateChartsAndUI(barArr, lineArr, lineLabels) of the app
updateChartsAndUI(u, barArr, lineArr, lineLabels) ==
    [u EXCEPT !.bar = barArr,
              !.line = lineArr,
              !.labels = lineLabels,
              !.good = Text(Nullish(barArr[1], Num(0))),
              !.meh = Text(Nullish(barArr[2], Num(0))),
              !.bad = Text(Nullish(barArr[3], Num(0))),
              !.votes = Text(JsOr(JsAdd(JsAdd(barArr[1], barArr[2]), barArr[3]),
                                  Num(0)))]

\* a label of the line chart: k its kind or name, n its number
Label(k, n) == [k |-> k, n |-> n]

WeekLabels == << Label("Mo", 0), Label("Di", 0), Label("Mi", 0), Label("Do", 0),
                 Label("Fr", 0), Label("Sa", 0), Label("So", 0) >>

YearLabels == << Label("Jan", 0), Label("Feb", 0), Label("Mar", 0),
                 Label("Apr", 0), Label("Mai", 0), Label("Jun", 0),
                 Label("Jul", 0), Label("Aug", 0), Label("Sep", 0),
                 Label("Okt", 0), Label("Nov", 0), Label("Dez", 0) >>

\* getLineLabelsForRange(range) of the app
getLineLabelsForRange(range) ==
    CASE range \in {"day", "now"} -> [i \in 1..24 |-> Label("h", i - 1)]
      [] range = "week" -> WeekLabels
      [] range = "month" ->
            [i \in 1..DaysInMonth(today.y, today.m) |-> Label("d", i)]
      [] range = "year" -> YearLabels
      [] OTHER -> <<>>

\* Array(n).fill(v)
Fill(n, v) == [i \in 1..n |-> v]

(***************************************************************************)
(* A loader run: the locals of one call of an async loader, suspended at   *)
(* the await of the request for url.                                       *)
(***************************************************************************)
NewRun(fn, dev, d) ==
    [fn |-> fn,                 \* the loader
     dev |-> dev,               \* its argument deviceName (app)
     start |-> today,           \* const today = new Date()
     range |-> "",              \* loadLautstaerke: the branch it has taken
     d |-> d,                   \* the date of the loop variable(s)
     phase |-> "dates",         \* "dates" | "fallback"
     url |-> BasePath(<<>>),    \* the outstanding request
     hit |-> FALSE,             \* fetchJson answers from the cache
     got |-> JsNull,            \* ... with this value
     totalGood |-> Num(0), totalMeh |-> Num(0), totalBad |-> Num(0),
     monthGood |-> Num(0), monthMeh |-> Num(0), monthBad |-> Num(0),
     temps |-> <<>>,            \* temps / lineDataArray
     dbSum |-> Num(0), dbCount |-> 0,
     monthTempSum |-> Num(0), monthTempCount |-> 0,
     totalDb |-> Num(0), count |-> 0]   \* of loadLautstaerke

\* the runs without the i-th
RemoveAt(seq, i) == SubSeq(seq, 1, i - 1) \o SubSeq(seq, i + 1, Len(seq))

(***************************************************************************)
(* The single-file app (unnamed/part_000, lines 210-701).                  *)
(***************************************************************************)
\* fetchJson(url) up to its await: a truthy cache entry is returned at once
fetchJson(r, url, cache) ==
    LET isHit == url \in DOMAIN cache /\ cache[url].k = "obj"
    IN [r EXCEPT !.url = url,
                 !.hit = isHit,
                 !.got = IF isHit THEN cache[url] ELSE JsNull]

\* the response was received and parsed
Loaded(resp) == ~resp.throws /\ resp.ok /\ resp.json

\* what the awaited fetchJson call of run r returns
fetchJsonResult(r) ==
    IF r.hit THEN r.got
    ELSE IF Loaded(Server(r.url)) THEN Server(r.url).doc
    ELSE JsNull

\* fetchCache[url] = json, after a request that succeeded
fetchJsonStore(r, cache) ==
    IF ~r.hit /\ Loaded(Server(r.url))
    THEN (r.url :> Server(r.url).doc) @@ cache
    ELSE cache

\* fetchJson(makeTotalsPath(deviceName, y, padZero(m), padZero(day)))
appFetchDate(r, d, cache) ==
    fetchJson([r EXCEPT !.d = d],
              makeTotalsPath(r.dev, d.y, padZero(d.m), padZero(d.d)), cache)

\* the dB reading of a record: nested first, then top level
appAddDb(r, o) ==
    IF IsNumber(NestedDb(o))
    THEN [r EXCEPT !.dbSum = JsAdd(r.dbSum, NestedDb(o)), !.dbCount = r.dbCount + 1]
    ELSE IF IsNumber(o.db)
    THEN [r EXCEPT !.dbSum = JsAdd(r.dbSum, o.db), !.dbCount = r.dbCount + 1]
    ELSE r

appAddTotals_OnlyGood(r, o) ==
    [r EXCEPT !.totalGood = JsAdd(r.totalGood, Nullish(o.good, Num(0)))]

appAddTotals(r, o) ==
    [r EXCEPT !.totalGood = JsAdd(r.totalGood, Nullish(o.good, Num(0))),
              !.totalMeh = JsAdd(r.totalMeh, Nullish(o.meh, Num(0))),
              !.totalBad = JsAdd(r.totalBad, Nullish(o.bad, Num(0)))]

\* the loop body of loadWeekRange and of loadMonthRange
appRangeBody(r, totals) ==
    IF totals.k = "obj"
    THEN LET o == totals.o
             r1 == appAddTotals(r, o)
             r2 == [r1 EXCEPT !.temps = Append(r.temps, Nullish(NestedTemp(o), Num(0)))]
         IN appAddDb(r2, o)
    ELSE [r EXCEPT !.temps = Append(r.temps, Num(0))]

\* the inner loop body of loadYearRange
appYearBody(r, totals) ==
    IF totals.k = "obj"
    THEN LET o == totals.o
             r1 == appAddTotals(r, o)
             r2 == IF IsNumber(NestedTemp(o))
                   THEN [r1 EXCEPT !.monthTempSum = JsAdd(r.monthTempSum, NestedTemp(o)),
                                   !.monthTempCount = r.monthTempCount + 1]
                   ELSE r1
         IN appAddDb(r2, o)
    ELSE r

\* after the inner loop of a month: temps.push(monthAvg), and the sums of the
\* next month start at 0
appMonthEnd(r) ==
    [r EXCEPT !.temps = Append(r.temps,
                               IF r.monthTempCount > 0
                               THEN JsRoundDiv(r.monthTempSum, Num(r.monthTempCount))
                               ELSE Num(0)),
              !.monthTempSum = Num(0),
              !.monthTempCount = 0]

appAvgDb_Truncated(r) ==
    IF r.dbCount > 0 THEN Num(r.dbSum.n \div r.dbCount) ELSE Num(0)

\* dbCount>0 ? Math.round(dbSum/dbCount) : 0
appAvgDb(r) == IF r.dbCount > 0 THEN JsRoundDiv(r.dbSum, Num(r.dbCount)) ELSE Num(0)

PadTo_NoPadding(temps, n) == temps

\* while (temps.length < labels.length) temps.push(0)
PadTo(temps, n) ==
    IF Len(temps) < n THEN temps \o Fill(n - Len(temps), Num(0)) ELSE temps

\* loadDayRange after its await
loadDayRangeFinish(u, totals) ==
    LET o == totals.o    \* EmptyObj when totals is null: every ?. yields undefined
        good == Nullish(o.good, Num(0))
        meh == Nullish(o.meh, Num(0))
        bad == Nullish(o.bad, Num(0))
        avgTemp == Nullish(NestedTemp(o), Num(0))
        avgDb == Nullish(NestedDb(o), Nullish(o.db, Num(0)))
        u1 == updateLautstaerkeAnzeige(u, JsRound(avgDb))
        u2 == updateLuftQualitaet(u1, Nullish(NestedVoc(o), Num(0)))
        u3 == updateChartsAndUI(u2, <<good, meh, bad>>, Fill(24, avgTemp),
                                getLineLabelsForRange("day"))
    IN hideLoader(u3)

\* loadWeekRange after its loop
loadWeekRangeFinish(u, r) ==
    LET u1 == updateLautstaerkeAnzeige(u, appAvgDb(r))
        u2 == updateLuftQualitaet(u1, Num(0))
        labels == getLineLabelsForRange("week")
        u3 == updateChartsAndUI(u2, <<r.totalGood, r.totalMeh, r.totalBad>>,
                                PadTo(r.temps, Len(labels)), labels)
    IN hideLoader(u3)

\* loadMonthRange and loadYearRange after their loops
appRangeFinish(u, r, range) ==
    LET u1 == updateLautstaerkeAnzeige(u, appAvgDb(r))
        u2 == updateLuftQualitaet(u1, Num(0))
        u3 == updateChartsAndUI(u2, <<r.totalGood, r.totalMeh, r.totalBad>>,
                                r.temps, getLineLabelsForRange(range))
    IN hideLoader(u3)

\* the first date a loader of the app asks for
appFirstDate(fn) ==
    CASE fn = "loadDayRange" -> today
      [] fn = "loadWeekRange" -> MondayOf(today)
      [] fn = "loadMonthRange" -> Date(today.y, today.m, 1)
      [] fn = "loadYearRange" -> Date(today.y, 1, 1)

\* the loop of run r goes on after the date r.d
appMore(r) ==
    CASE r.fn = "loadDayRange" -> FALSE
      [] r.fn = "loadWeekRange" -> DateLE(NextDate(r.d), r.start)
      [] r.fn = "loadMonthRange" -> r.d.d < DaysInMonth(r.d.y, r.d.m)
      [] r.fn = "loadYearRange" ->
            r.d.d < DaysInMonth(r.d.y, r.d.m) \/ r.d.m < 12

\* loadDataForCurrentRange of the app: the loader of the current range
appLoaderOf(range) ==
    CASE range \in {"now", "day"} -> "loadDayRange"
      [] range = "week" -> "loadWeekRange"
      [] range = "month" -> "loadMonthRange"
      [] range = "year" -> "loadYearRange"

\* the part of the state that starting a loader or a timer changes
Started == [runs |-> runs, ui |-> ui, timers |-> timers]

Starts(st) == runs' = st.runs /\ ui' = st.ui /\ timers' = st.timers

\* loadDataForCurrentRange(): with a device selected, the loader of range
\* shows the overlay and runs up to its first await
appLoadDataForCurrentRange_Cancelling(st, range, device) ==
    LET fn == appLoaderOf(range)
        d == appFirstDate(fn)
    IN [st EXCEPT !.runs = <<appFetchDate(NewRun(fn, device, d), d, fetchCache)>>,
                  !.ui = showLoader(st.ui)]

appLoadDataForCurrentRange(st, range, device) ==
    IF device = ""
    THEN st
    ELSE LET fn == appLoaderOf(range)
             d == appFirstDate(fn)
         IN [st EXCEPT !.runs = Append(st.runs,
                                  appFetchDate(NewRun(fn, device, d), d, fetchCache)),
                       !.ui = showLoader(st.ui)]

\* a loader that shows its running sums after every date
appResume_Incremental(i) ==
    LET r == runs[i]
        totals == fetchJsonResult(r)
        cache == fetchJsonStore(r, fetchCache)
        inner == CASE r.fn = "loadYearRange" -> appYearBody(r, totals)
                   [] r.fn = "loadDayRange" -> r
                   [] OTHER -> appRangeBody(r, totals)
        body == IF r.fn = "loadYearRange" /\ r.d.d = DaysInMonth(r.d.y, r.d.m)
                THEN appMonthEnd(inner) ELSE inner
    IN /\ page = "app"
       /\ fetchCache' = cache
       /\ IF appMore(r)
          THEN /\ runs' = [runs EXCEPT ![i] = appFetchDate(body, NextDate(r.d), cache)]
               /\ ui' = updateChartsAndUI(ui, <<body.totalGood, body.totalMeh, body.totalBad>>,
                                          ui.line, ui.labels)
          ELSE /\ runs' = RemoveAt(runs, i)
               /\ ui' = CASE r.fn = "loadDayRange" -> loadDayRangeFinish(ui, totals)
                          [] r.fn = "loadWeekRange" -> loadWeekRangeFinish(ui, body)
                          [] r.fn = "loadMonthRange" -> appRangeFinish(ui, body, "month")
                          [] r.fn = "loadYearRange" -> appRangeFinish(ui, body, "year")
       /\ UNCHANGED <<page, today, files, domReady, currentTimeRange,
                      currentDevice, currentDepartment, timers, clicks>>

\* the awaited fetchJson of run i completes and the loader runs on to its next
\* await or to its end
appResume(i) ==
    LET r == runs[i]
        totals == fetchJsonResult(r)
        cache == fetchJsonStore(r, fetchCache)
        inner == CASE r.fn = "loadYearRange" -> appYearBody(r, totals)
                   [] r.fn = "loadDayRange" -> r
                   [] OTHER -> appRangeBody(r, totals)
        body == IF r.fn = "loadYearRange" /\ r.d.d = DaysInMonth(r.d.y, r.d.m)
                THEN appMonthEnd(inner) ELSE inner
    IN /\ page = "app"
       /\ fetchCache' = cache
       /\ IF appMore(r)
          THEN /\ runs' = [runs EXCEPT ![i] = appFetchDate(body, NextDate(r.d), cache)]
               /\ ui' = ui
          ELSE /\ runs' = RemoveAt(runs, i)
               /\ ui' = CASE r.fn = "loadDayRange" -> loadDayRangeFinish(ui, totals)
                          [] r.fn = "loadWeekRange" -> loadWeekRangeFinish(ui, body)
                          [] r.fn = "loadMonthRange" -> appRangeFinish(ui, body, "month")
                          [] r.fn = "loadYearRange" -> appRangeFinish(ui, body, "year")
       /\ UNCHANGED <<page, today, files, domReady, currentTimeRange,
                      currentDevice, currentDepartment, timers, clicks>>

\* let devicesList = ["01_Torben"]
devicesList == <<"01_Torben">>

\* const ranges = ["now","day","week","month","year"]
ranges == <<"now", "day", "week", "month", "year">>

\* the DOMContentLoaded handler of the app: buildDeviceTable selects the first
\* device, and the initial load starts
appDOMContentLoaded ==
    /\ page = "app"
    /\ ~domReady
    /\ domReady' = TRUE
    /\ currentDevice' = devicesList[1]
    /\ Starts(appLoadDataForCurrentRange(Started, currentTimeRange, devicesList[1]))
    /\ UNCHANGED <<page, today, files, currentTimeRange, currentDepartment,
                   fetchCache, clicks>>

\* a click on the index-th cell of the time bar (initTimeRangeButtons)
appClickRange(index) ==
    /\ page = "app"
    /\ domReady
    /\ clicks' = clicks + 1
    /\ currentTimeRange' = ranges[index + 1]
    /\ Starts(appLoadDataForCurrentRange(Started, ranges[index + 1], currentDevice))
    /\ UNCHANGED <<page, today, files, domReady, currentDevice,
                   currentDepartment, fetchCache>>

\* a click on the row of device dev (buildDeviceTable)
appClickDevice(dev) ==
    /\ page = "app"
    /\ domReady
    /\ clicks' = clicks + 1
    /\ currentDevice' = dev
    /\ Starts(appLoadDataForCurrentRange(Started, currentTimeRange, dev))
    /\ UNCHANGED <<page, today, files, domReady, currentTimeRange,
                   currentDepartment, fetchCache>>

(***************************************************************************)
(* Kirill_Website2.0.1: paths.js and dataLoader.js.                        *)
(***************************************************************************)
baseDataDir == "common/data"

departmentMap == [allgemein |-> "01_Torben", werk |-> "02_Werk", buero |-> "03_Buero"]

\* Object.values(departmentMap)
departmentFolders == <<"01_Torben", "02_Werk", "03_Buero">>

\* getBasePathForDepartment(department) with window.appDataPaths present
getBasePathForDepartment(department) ==
    IF \E i \in 1..Len(departmentFolders) : departmentFolders[i] = department
    THEN <<baseDataDir, department>>
    ELSE IF department \in DOMAIN departmentMap
    THEN <<baseDataDir, departmentMap[department]>>
    ELSE <<baseDataDir, department>>

getFilePathForDate(department, year, month, day) ==
    DatedPath(getBasePathForDepartment(department), year, month, day)

\* what the awaited safeFetchJson(path) returns
safeFetchJson(url) == IF Loaded(Server(url)) THEN Server(url).doc ELSE JsNull

\* updateChartAndHTML(good, meh, bad, lineLabels, lineDataArray), the charts
\* being initialised
updateChartAndHTML(u, good, meh, bad, lineLabels, lineDataArray) ==
    [u EXCEPT !.bar = <<good, meh, bad>>,
              !.barDatasets0 = <<good, meh, bad>>,
              !.line = lineDataArray,
              !.labels = lineLabels,
              !.good = Text(JsOr(good, Num(0))),
              !.meh = Text(JsOr(meh, Num(0))),
              !.bad = Text(JsOr(bad, Num(0))),
              !.votes = Text(JsAdd(JsAdd(JsOr(ToNumber(good), Num(0)),
                                         JsOr(ToNumber(meh), Num(0))),
                                   JsOr(ToNumber(bad), Num(0))))]

\* json.avg_sensor_day ? json.avg_sensor_day.temp : 0
TempOrZero(o) == IF o.asd THEN o.temp ELSE Num(0)

\* the request of run r for the date d, in the folder selected right now
v2FetchDate(r, d, department) ==
    [r EXCEPT !.d = d,
              !.url = getFilePathForDate(department, d.y, padZero(d.m), padZero(d.d))]

\* tryFallbackTotals(getBasePathForDepartment(currentDepartment)) up to its await
tryFallbackTotals(r, department) ==
    [r EXCEPT !.phase = "fallback",
              !.url = BasePath(getBasePathForDepartment(department))]

\* the loop body of loadWeekData and of loadMonthData
v2RangeBody(r, json) ==
    IF json.k = "obj"
    THEN [r EXCEPT !.totalGood = JsAdd(r.totalGood, JsOr(json.o.good, Num(0))),
                   !.totalMeh = JsAdd(r.totalMeh, JsOr(json.o.meh, Num(0))),
                   !.totalBad = JsAdd(r.totalBad, JsOr(json.o.bad, Num(0))),
                   !.temps = Append(r.temps, TempOrZero(json.o))]
    ELSE [r EXCEPT !.temps = Append(r.temps, Num(0))]

\* the inner loop body of loadYearData
v2YearBody(r, data) ==
    IF data.k = "obj"
    THEN LET r1 == [r EXCEPT !.monthGood = JsAdd(r.monthGood, JsOr(data.o.good, Num(0))),
                             !.monthMeh = JsAdd(r.monthMeh, JsOr(data.o.meh, Num(0))),
                             !.monthBad = JsAdd(r.monthBad, JsOr(data.o.bad, Num(0)))]
         IN IF data.o.asd /\ IsNumber(data.o.temp)
            THEN [r1 EXCEPT !.monthTempSum = JsAdd(r.monthTempSum, data.o.temp),
                            !.monthTempCount = r.monthTempCount + 1]
            ELSE r1
    ELSE r

\* after the inner loop of a month of loadYearData
v2MonthEnd(r) ==
    [r EXCEPT !.totalGood = JsAdd(r.totalGood, r.monthGood),
              !.totalMeh = JsAdd(r.totalMeh, r.monthMeh),
              !.totalBad = JsAdd(r.totalBad, r.monthBad),
              !.monthGood = Num(0), !.monthMeh = Num(0), !.monthBad = Num(0),
              !.temps = Append(r.temps,
                               IF r.monthTempCount > 0
                               THEN JsRoundDiv(r.monthTempSum, Num(r.monthTempCount))
                               ELSE Num(0)),
              !.monthTempSum = Num(0),
              !.monthTempCount = 0]

\* lineDataArray.every(v => v === 0)
allZeros(lineDataArray) == \A i \in 1..Len(lineDataArray) : lineDataArray[i] = Num(0)

\* the range whose labels a loader of dataLoader.js shows
v2RangeOf(fn) ==
    CASE fn = "loadDayData" -> "day"
      [] fn = "loadWeekData" -> "week"
      [] fn = "loadMonthData" -> "month"
      [] fn = "loadYearData" -> "year"

v2LoaderOf(range) ==
    CASE range \in {"now", "day"} -> "loadDayData"
      [] range = "week" -> "loadWeekData"
      [] range = "month" -> "loadMonthData"
      [] range = "year" -> "loadYearData"

v2FirstDate(fn) ==
    CASE fn = "loadDayData" -> today
      [] fn = "loadWeekData" -> MondayOf(today)
      [] fn = "loadMonthData" -> Date(today.y, today.m, 1)
      [] fn = "loadYearData" -> Date(today.y, 1, 1)

v2More_StopOnFailure(r) ==
    /\ Loaded(Server(r.url))
    /\ CASE r.fn = "loadDayData" -> FALSE
         [] r.fn = "loadWeekData" -> DateLE(NextDate(r.d), r.start)
         [] r.fn = "loadMonthData" -> r.d.d < DaysInMonth(r.d.y, r.d.m)
         [] r.fn = "loadYearData" ->
               r.d.d < DaysInMonth(r.d.y, r.d.m) \/ r.d.m < 12

v2More(r) ==
    CASE r.fn = "loadDayData" -> FALSE
      [] r.fn = "loadWeekData" -> DateLE(NextDate(r.d), r.start)
      [] r.fn = "loadMonthData" -> r.d.d < DaysInMonth(r.d.y, r.d.m)
      [] r.fn = "loadYearData" ->
            r.d.d < DaysInMonth(r.d.y, r.d.m) \/ r.d.m < 12

\* the fallback record added to the sums of the run
v2ShowFallback_Added(u, r, base) ==
    LET lineLabels == getLineLabelsForRange(v2RangeOf(r.fn))
    IN updateChartAndHTML(u, JsAdd(r.totalGood, JsOr(base.good, Num(0))),
                          JsAdd(r.totalMeh, JsOr(base.meh, Num(0))),
                          JsAdd(r.totalBad, JsOr(base.bad, Num(0))), lineLabels,
                          Fill(Len(lineLabels), TempOrZero(base)))

\* the update with the fallback record base
v2ShowFallback(u, r, base) ==
    LET lineLabels == getLineLabelsForRange(v2RangeOf(r.fn))
    IN updateChartAndHTML(u, JsOr(base.good, Num(0)), JsOr(base.meh, Num(0)),
                          JsOr(base.bad, Num(0)), lineLabels,
                          Fill(Len(lineLabels), TempOrZero(base)))

\* the update with the sums of the run
v2ShowTotals(u, r) ==
    updateChartAndHTML(u, r.totalGood, r.totalMeh, r.totalBad,
                       getLineLabelsForRange(v2RangeOf(r.fn)), r.temps)

\* the dispatcher without its check of the department
loadDataForCurrentRange_Unguarded(st, range, department) ==
    LET fn == v2LoaderOf(range)
        d == v2FirstDate(fn)
    IN [st EXCEPT !.runs = Append(st.runs,
                             v2FetchDate(NewRun(fn, "", d), d, department)),
                  !.ui = showLoader(st.ui)]

\* loadDataForCurrentRange() of dataLoader.js: with a department selected,
\* the loader of range shows the overlay and runs up to its first await
loadDataForCurrentRange(st, range, department) ==
    IF department = ""
    THEN st
    ELSE LET fn == v2LoaderOf(range)
             d == v2FirstDate(fn)
         IN [st EXCEPT !.runs = Append(st.runs,
                                  v2FetchDate(NewRun(fn, "", d), d, department)),
                       !.ui = showLoader(st.ui)]

\* the awaited safeFetchJson of run i of a loader of dataLoader.js completes
v2Resume(i) ==
    LET r == runs[i]
        data == safeFetchJson(r.url)
        inner == CASE r.fn = "loadYearData" -> v2YearBody(r, data)
                   [] r.fn = "loadDayData" -> r
                   [] OTHER -> v2RangeBody(r, data)
        body == IF r.fn = "loadYearData" /\ r.d.d = DaysInMonth(r.d.y, r.d.m)
                THEN v2MonthEnd(inner) ELSE inner
    IN /\ page = "v2"
       /\ r.fn # "loadLautstaerke"
       /\ IF r.phase = "dates" /\ v2More(r)
          THEN /\ runs' = [runs EXCEPT ![i] = v2FetchDate(body, NextDate(r.d), currentDepartment)]
               /\ ui' = ui
          ELSE IF r.phase = "dates" /\ r.fn = "loadDayData"
          THEN IF data.k = "obj"
               THEN /\ runs' = RemoveAt(runs, i)
                    /\ ui' = hideLoader(updateChartAndHTML(ui,
                                 JsOr(data.o.good, Num(0)), JsOr(data.o.meh, Num(0)),
                                 JsOr(data.o.bad, Num(0)), getLineLabelsForRange("day"),
                                 Fill(24, TempOrZero(data.o))))
               ELSE /\ runs' = [runs EXCEPT ![i] = tryFallbackTotals(r, currentDepartment)]
                    /\ ui' = ui
          ELSE IF r.phase = "dates"
          THEN IF allZeros(body.temps)
               THEN /\ runs' = [runs EXCEPT ![i] = tryFallbackTotals(body, currentDepartment)]
                    /\ ui' = ui
               ELSE /\ runs' = RemoveAt(runs, i)
                    /\ ui' = hideLoader(v2ShowTotals(ui, body))
          ELSE /\ runs' = RemoveAt(runs, i)
               /\ ui' = IF data.k = "obj"
                        THEN hideLoader(IF r.fn = "loadDayData"
                                        THEN updateChartAndHTML(ui,
                                               JsOr(data.o.good, Num(0)), JsOr(data.o.meh, Num(0)),
                                               JsOr(data.o.bad, Num(0)), getLineLabelsForRange("day"),
                                               Fill(24, TempOrZero(data.o)))
                                        ELSE v2ShowFallback(ui, r, data.o))
                        ELSE hideLoader(IF r.fn = "loadDayData"
                                        THEN updateChartAndHTML(ui, Num(0), Num(0), Num(0),
                                               getLineLabelsForRange("day"), Fill(24, Num(0)))
                                        ELSE v2ShowTotals(ui, r))
       /\ UNCHANGED <<page, today, files, domReady, currentTimeRange,
                      currentDevice, currentDepartment, fetchCache, timers, clicks>>

(***************************************************************************)
(* Kirill_Website2.0.1: lautstaerke.js (unnamed/part_000, lines 29-209).   *)
(***************************************************************************)
\* the first date loadLautstaerke asks for in the branch of range
lautFirstDate(range) ==
    CASE range \in {"now", "day"} -> today
      [] range = "week" -> MondayOf(today)
      [] range = "month" -> Date(today.y, today.m, 1)
      [] range = "year" -> Date(today.y, 1, 1)

lautMore(r) ==
    CASE r.range \in {"now", "day"} -> FALSE
      [] r.range = "week" -> DateLE(NextDate(r.d), r.start)
      [] r.range = "month" -> r.d.d < DaysInMonth(r.d.y, r.d.m)
      [] r.range = "year" -> r.d.d < DaysInMonth(r.d.y, r.d.m) \/ r.d.m < 12

\* the call without its await: the loop moves on while the request is out
loadDbForDate_NoAwait(r, d, department) ==
    [r EXCEPT !.d = NextDate(d),
              !.url = getFilePathForDate(department, d.y, padZero(d.m), padZero(d.d))]

\* loadDbForDate(y, m, d) up to its await: the path is built from the
\* department selected right now
loadDbForDate(r, d, department) ==
    [r EXCEPT !.d = d,
              !.url = getFilePathForDate(department, d.y, padZero(d.m), padZero(d.d))]

\* loadDbForDate after its await: the reading of the response, NaN when the
\* request failed or the record has none
lautReading(resp) ==
    IF resp.throws \/ ~resp.ok \/ ~resp.json THEN NaN
    ELSE LET data == resp.doc
         IN IF data.k = "obj" /\ IsNumber(data.o.db) THEN data.o.db
            ELSE IF data.k = "obj" /\ data.o.asd /\ IsNumber(data.o.ndb) THEN data.o.ndb
            ELSE NaN

\* if (!isNaN(val)) { totalDb += val; count++; }
lautAdd(r, val) ==
    IF ~IsNaN(val)
    THEN [r EXCEPT !.totalDb = JsAdd(r.totalDb, val), !.count = r.count + 1]
    ELSE r

\* the reading of the fallback record: nested first, then top level
lautFallbackReading(resp) ==
    IF resp.throws \/ ~resp.ok \/ ~resp.json \/ resp.doc.k # "obj" THEN NaN
    ELSE LET fallbackData == resp.doc.o
         IN IF fallbackData.asd /\ IsNumber(fallbackData.ndb) THEN fallbackData.ndb
            ELSE IF IsNumber(fallbackData.db) THEN fallbackData.db
            ELSE NaN

\* if (!isNaN(val)) { totalDb = val; count = 1; }
lautUseFallback(r, val) ==
    IF ~IsNaN(val) THEN [r EXCEPT !.totalDb = val, !.count = 1] ELSE r

lautAvgDb_Unguarded(r) == JsRoundDiv(r.totalDb, Num(r.count))

\* count > 0 ? Math.round(totalDb / count) : 0
lautAvgDb(r) == IF r.count > 0 THEN JsRoundDiv(r.totalDb, Num(r.count)) ELSE Num(0)

\* typeof x of a global that no loaded script declares
Undeclared == "undefined"

\* the number of re-attempts after which a chain of re-attempts is cut off
MaxAttempts == 3

\* a pending setTimeout callback: loadLautstaerke(retry); attempt counts the
\* re-attempts that led to it (0 for the timer of a click)
LautTimer(retry) == [fn |-> "loadLautstaerke", retry |-> retry, attempt |-> 0]

\* setTimeout(..., 500) of a call that found the selection missing
RetryTimer(retry, attempt) ==
    [fn |-> "loadLautstaerke", retry |-> retry, attempt |-> attempt]

\* loadLautstaerke(retry) up to its first await
loadLautstaerke(st, retry, range, department) ==
    IF range = Undeclared \/ department = Undeclared \/ department = ""
    THEN IF retry
         THEN [st EXCEPT !.timers = Append(st.timers, RetryTimer(FALSE, 1))]
         ELSE st
    ELSE LET d == lautFirstDate(range)
             r == [NewRun("loadLautstaerke", "", d) EXCEPT !.range = range]
         IN [st EXCEPT !.runs = Append(st.runs, loadDbForDate(r, d, department))]

\* the awaited fetch of run i of loadLautstaerke completes
lautResume(i) ==
    LET r == runs[i]
        resp == Server(r.url)
        body == lautAdd(r, lautReading(resp))
        last == lautUseFallback(r, lautFallbackReading(resp))
    IN /\ page = "v2"
       /\ r.fn = "loadLautstaerke"
       /\ IF r.phase = "dates" /\ lautMore(r)
          THEN /\ runs' = [runs EXCEPT ![i] = loadDbForDate(body, NextDate(r.d), currentDepartment)]
               /\ ui' = ui
          ELSE IF r.phase = "dates" /\ body.count = 0
          THEN /\ runs' = [runs EXCEPT ![i] = tryFallbackTotals(body, currentDepartment)]
               /\ ui' = ui
          ELSE /\ runs' = RemoveAt(runs, i)
               /\ ui' = updateLautstaerkeAnzeige(ui,
                            lautAvgDb(IF r.phase = "dates" THEN body ELSE last))
       /\ UNCHANGED <<page, today, files, domReady, currentTimeRange,
                      currentDevice, currentDepartment, fetchCache, timers, clicks>>

\* a pending timer fires: loadLautstaerke(retry) is called
v2Timer(k) ==
    /\ page = "v2"
    /\ Starts(loadLautstaerke([Started EXCEPT !.timers = RemoveAt(timers, k)],
                              timers[k].retry, currentTimeRange, currentDepartment))
    /\ UNCHANGED <<page, today, files, domReady, currentTimeRange,
                   currentDevice, currentDepartment, fetchCache, clicks>>

\* buildDeviceList(): the first folder is selected when none is
buildDeviceList(department) ==
    IF department = "" THEN departmentFolders[1] ELSE department

\* DOMContentLoaded: the handler of dataLoader.js builds the device list and
\* starts the initial load, the handler of lautstaerke.js calls
\* loadLautstaerke(); the two run in the order of the script tags
v2DOMContentLoaded(dataLoaderFirst) ==
    /\ page = "v2"
    /\ ~domReady
    /\ domReady' = TRUE
    /\ currentDepartment' = buildDeviceList(currentDepartment)
    /\ Starts(IF dataLoaderFirst
              THEN loadLautstaerke(
                       loadDataForCurrentRange(Started, currentTimeRange,
                                               buildDeviceList(currentDepartment)),
                       TRUE, currentTimeRange, buildDeviceList(currentDepartment))
              ELSE loadDataForCurrentRange(
                       loadLautstaerke(Started, TRUE, currentTimeRange, currentDepartment),
                       currentTimeRange, buildDeviceList(currentDepartment)))
    /\ UNCHANGED <<page, today, files, currentTimeRange, currentDevice,
                   fetchCache, clicks>>

\* DOMContentLoaded on a page without the table of the sidebar:
\* buildDeviceList returns at once, no row is built and no department is
\* selected when the initial load is asked for
v2DOMContentLoadedNoDevices(dataLoaderFirst) ==
    /\ page = "v2"
    /\ ~domReady
    /\ domReady' = TRUE
    /\ Starts(IF dataLoaderFirst
              THEN loadLautstaerke(
                       loadDataForCurrentRange(Started, currentTimeRange, currentDepartment),
                       TRUE, currentTimeRange, currentDepartment)
              ELSE loadDataForCurrentRange(
                       loadLautstaerke(Started, TRUE, currentTimeRange, currentDepartment),
                       currentTimeRange, currentDepartment))
    /\ UNCHANGED <<page, today, files, currentTimeRange, currentDevice,
                   currentDepartment, fetchCache, clicks>>

\* a click on the index-th cell of the time bar: the listener of dataLoader.js
\* loads, the listener of lautstaerke.js sets its timer
v2ClickRange(index) ==
    /\ page = "v2"
    /\ domReady
    /\ clicks' = clicks + 1
    /\ currentTimeRange' = ranges[index + 1]
    /\ Starts(LET st == loadDataForCurrentRange(Started, ranges[index + 1],
                                                currentDepartment)
              IN [st EXCEPT !.timers = Append(st.timers, LautTimer(TRUE))])
    /\ UNCHANGED <<page, today, files, domReady, currentDevice,
                   currentDepartment, fetchCache>>

\* a click on the row of the device folderName
v2ClickDevice(folderName) ==
    /\ page = "v2"
    /\ domReady
    /\ clicks' = clicks + 1
    /\ currentDepartment' = folderName
    /\ Starts(LET st == loadDataForCurrentRange(Started, currentTimeRange, folderName)
              IN [st EXCEPT !.timers = Append(st.timers, LautTimer(TRUE))])
    /\ UNCHANGED <<page, today, files, domReady, currentTimeRange,
                   currentDevice, fetchCache>>

(***************************************************************************)
(* Kirill_Website: dataLoader.js (unnamed/part_001, lines 149-405) and     *)
(* lautstaerke.js.                                                         *)
(***************************************************************************)
\* const departments = ["allgemein", "werk", "buero"]
departments == <<"allgemein", "werk", "buero">>

v1getBasePathForDepartment(department) ==
    CASE department = "werk" -> <<"common/data">>
      [] department = "buero" -> <<"common/data_buero">>
      [] OTHER -> <<"common/data_allgemein">>

v1getFilePathForDate(department, year, month, day) ==
    DatedPath(v1getBasePathForDepartment(department), year, month, day)

\* const data = await resp.json() yields an object: the request did not
\* reject and the body is JSON text, whatever the status; a body null makes
\* the first field access throw
v1Parsed(resp) == ~resp.throws /\ resp.json /\ resp.doc.k = "obj"

\* public.js leaves window.barChart = null on a page without the canvas
\* myChart; typeof null is "object", so updateChartAndHTML passes its check
\* and barChart.data throws a TypeError
v1Throws(u) == ~u.myChart

\* updateChartAndHTML of Kirill_Website, up to its end or to the exception
v1updateChartAndHTML(u, good, meh, bad, lineLabels, lineDataArray) ==
    IF v1Throws(u)
    THEN [u EXCEPT !.barDatasets0 = <<good, meh, bad>>]
    ELSE [u EXCEPT !.bar = <<good, meh, bad>>,
                   !.barDatasets0 = <<good, meh, bad>>,
                   !.line = lineDataArray,
                   !.labels = lineLabels,
                   !.good = Text(good),
                   !.meh = Text(meh),
                   !.bad = Text(bad),
                   !.votes = Text(JsAdd(JsAdd(good, meh), bad))]

v1FetchDate(r, d, department) ==
    [r EXCEPT !.d = d,
              !.url = v1getFilePathForDate(department, d.y, padZero(d.m), padZero(d.d))]

\* the try block of the loop of loadWeekData and of loadMonthData, and its catch
v1RangeBody(r, resp) ==
    IF v1Parsed(resp)
    THEN LET json == resp.doc.o
         IN [r EXCEPT !.totalGood = JsAdd(r.totalGood, json.good),
                      !.totalMeh = JsAdd(r.totalMeh, json.meh),
                      !.totalBad = JsAdd(r.totalBad, json.bad),
                      !.temps = Append(r.temps, TempOrZero(json))]
    ELSE [r EXCEPT !.temps = Append(r.temps, Num(0))]

\* the try block of the inner loop of loadYearData
v1YearBody(r, resp) ==
    IF v1Parsed(resp)
    THEN LET data == resp.doc.o
         IN [r EXCEPT !.monthGood = JsAdd(r.monthGood, data.good),
                      !.monthMeh = JsAdd(r.monthMeh, data.meh),
                      !.monthBad = JsAdd(r.monthBad, data.bad),
                      !.monthTempSum = JsAdd(r.monthTempSum, TempOrZero(data))]
    ELSE r

\* after the inner loop of a month: the month's temperature sum is divided by
\* the number of days of the month
v1MonthEnd(r) ==
    [r EXCEPT !.totalGood = JsAdd(r.totalGood, r.monthGood),
              !.totalMeh = JsAdd(r.totalMeh, r.monthMeh),
              !.totalBad = JsAdd(r.totalBad, r.monthBad),
              !.monthGood = Num(0), !.monthMeh = Num(0), !.monthBad = Num(0),
              !.temps = Append(r.temps,
                               JsRoundDiv(r.monthTempSum,
                                          Num(DaysInMonth(r.d.y, r.d.m)))),
              !.monthTempSum = Num(0)]

\* loadDataForCurrentRange() of Kirill_Website: no check of the department
v1loadDataForCurrentRange(st, range, department) ==
    LET fn == v2LoaderOf(range)
        d == v2FirstDate(fn)
    IN [st EXCEPT !.runs = Append(st.runs,
                             v1FetchDate(NewRun(fn, "", d), d, department)),
                  !.ui = showLoader(st.ui)]

\* the awaited fetch of run i of a loader of Kirill_Website completes;
\* loadDayData calls hideLoader in its finally block, the other loaders
\* after updateChartAndHTML has returned
v1Resume(i) ==
    LET r == runs[i]
        resp == Server(r.url)
        inner == CASE r.fn = "loadYearData" -> v1YearBody(r, resp)
                   [] r.fn = "loadDayData" -> r
                   [] OTHER -> v1RangeBody(r, resp)
        body == IF r.fn = "loadYearData" /\ r.d.d = DaysInMonth(r.d.y, r.d.m)
                THEN v1MonthEnd(inner) ELSE inner
    IN /\ page = "v1"
       /\ r.fn # "loadLautstaerke"
       /\ IF v2More(r)
          THEN /\ runs' = [runs EXCEPT ![i] = v1FetchDate(body, NextDate(r.d), currentDepartment)]
               /\ ui' = ui
          ELSE /\ runs' = RemoveAt(runs, i)
               /\ ui' = IF r.fn = "loadDayData"
                        THEN IF v1Parsed(resp)
                             THEN hideLoader(v1updateChartAndHTML(ui,
                                      resp.doc.o.good, resp.doc.o.meh, resp.doc.o.bad,
                                      getLineLabelsForRange("day"),
                                      Fill(24, TempOrZero(resp.doc.o))))
                             ELSE hideLoader(ui)
                        ELSE LET shown == v1updateChartAndHTML(ui,
                                     body.totalGood, body.totalMeh, body.totalBad,
                                     getLineLabelsForRange(v2RangeOf(r.fn)), body.temps)
                             IN IF v1Throws(ui) THEN shown ELSE hideLoader(shown)
       /\ UNCHANGED <<page, today, files, domReady, currentTimeRange,
                      currentDevice, currentDepartment, fetchCache, timers, clicks>>

\* loadDbForDate of Kirill_Website up to its await
v1loadDbForDate(r, d, department) ==
    [r EXCEPT !.d = d,
              !.url = v1getFilePathForDate(department, d.y, padZero(d.m), padZero(d.d))]

\* loadDbForDate of Kirill_Website after its await: a parsed record counts
\* with its top-level db, else its nested db, else 0
v1lautAdd(r, resp) ==
    IF v1Parsed(resp)
    THEN LET data == resp.doc.o
             val == IF data.db.t # "undef" THEN data.db
                    ELSE IF data.asd /\ data.ndb.t # "undef" THEN data.ndb
                    ELSE Num(0)
         IN lautAdd(r, val)
    ELSE r

\* loadLautstaerke() of Kirill_Website up to its first await, or to the
\* setTimeout(loadLautstaerke, 500) of a call that finds the globals of
\* dataLoader.js undeclared; attempt is the number of such calls before it
v1loadLautstaerke(st, attempt, range, department) ==
    IF range = Undeclared \/ department = Undeclared
    THEN [st EXCEPT !.timers = Append(st.timers, RetryTimer(TRUE, attempt + 1))]
    ELSE LET d == lautFirstDate(range)
             r == [NewRun("loadLautstaerke", "", d) EXCEPT !.range = range]
         IN [st EXCEPT !.runs = Append(st.runs, v1loadDbForDate(r, d, department))]

v1lautResume(i) ==
    LET r == runs[i]
        body == v1lautAdd(r, Server(r.url))
    IN /\ page = "v1"
       /\ r.fn = "loadLautstaerke"
       /\ IF lautMore(r)
          THEN /\ runs' = [runs EXCEPT ![i] = v1loadDbForDate(body, NextDate(r.d), currentDepartment)]
               /\ ui' = ui
          ELSE /\ runs' = RemoveAt(runs, i)
               /\ ui' = updateLautstaerkeAnzeige(ui, lautAvgDb(body))
       /\ UNCHANGED <<page, today, files, domReady, currentTimeRange,
                      currentDevice, currentDepartment, fetchCache, timers, clicks>>

v1Timer(k) ==
    /\ page = "v1"
    /\ timers[k].attempt < MaxAttempts
    /\ Starts(v1loadLautstaerke([Started EXCEPT !.timers = RemoveAt(timers, k)],
                                timers[k].attempt,
                                currentTimeRange, currentDepartment))
    /\ UNCHANGED <<page, today, files, domReady, currentTimeRange,
                   currentDevice, currentDepartment, fetchCache, clicks>>

\* window.barDatasets and window.lineDatasets of public.js; the data of
\* barDatasets[0] is replaced by updateChartAndHTML
barDatasets(u) == << u.barDatasets0,
                     <<Num(30), Num(4), Num(2)>>,
                     <<Num(5), Num(50), Num(100)>> >>

lineDatasets == << <<Num(5), Num(7), Num(3)>>,
                   <<Num(2), Num(9), Num(6)>>,
                   <<Num(5), Num(50), Num(100)>> >>

\* array[i] of a JavaScript array, i from 0
At(array, i) == IF i + 1 \in 1..Len(array) THEN array[i + 1] ELSE Undef

\* updateCharts(index) of public.js (unnamed/part_001)
updateCharts(u, index) ==
    LET data == barDatasets(u)[index + 1]
    IN [u EXCEPT !.bar = IF u.myChart THEN data ELSE u.bar,
                 !.line = lineDatasets[index + 1],
                 !.good = Text(JsOr(At(data, 0), Num(0))),
                 !.meh = Text(JsOr(At(data, 1), Num(0))),
                 !.bad = Text(JsOr(At(data, 2), Num(0))),
                 !.votes = Text(JsAdd(JsAdd(JsOr(At(data, 0), Num(0)),
                                            JsOr(At(data, 1), Num(0))),
                                      JsOr(At(data, 2), Num(0))))]

\* DOMContentLoaded: dataLoader.js starts the initial load, lautstaerke.js
\* calls loadLautstaerke()
v1DOMContentLoaded ==
    /\ page = "v1"
    /\ ~domReady
    /\ domReady' = TRUE
    /\ Starts(v1loadLautstaerke(
                  v1loadDataForCurrentRange(Started, currentTimeRange, currentDepartment),
                  0, currentTimeRange, currentDepartment))
    /\ UNCHANGED <<page, today, files, currentTimeRange, currentDevice,
                   currentDepartment, fetchCache, clicks>>

v1ClickRange(index) ==
    /\ page = "v1"
    /\ domReady
    /\ clicks' = clicks + 1
    /\ currentTimeRange' = ranges[index + 1]
    /\ Starts(LET st == v1loadDataForCurrentRange(Started, ranges[index + 1],
                                                  currentDepartment)
              IN [st EXCEPT !.timers = Append(st.timers, LautTimer(TRUE))])
    /\ UNCHANGED <<page, today, files, domReady, currentDevice,
                   currentDepartment, fetchCache>>

\* a click on the index-th row of the sidebar (index >= 1)
v1ClickDepartment(index) ==
    /\ page = "v1"
    /\ domReady
    /\ clicks' = clicks + 1
    /\ currentDepartment' = departments[index]
    /\ Starts(LET st == v1loadDataForCurrentRange(
                            [Started EXCEPT !.ui = updateCharts(ui, index - 1)],
                            currentTimeRange, departments[index])
              IN [st EXCEPT !.timers = Append(st.timers, LautTimer(TRUE))])
    /\ UNCHANGED <<page, today, files, domReady, currentTimeRange,
                   currentDevice, fetchCache>>

(***************************************************************************)
(* Inputs of the model.                                                    *)
(***************************************************************************)
\* the days of one week, Monday 2025-10-27 .. Sunday 2025-11-02
Todays == {Date(2025, 10, 27), Date(2025, 10, 28), Date(2025, 10, 29),
           Date(2025, 10, 30), Date(2025, 10, 31), Date(2025, 11, 1),
           Date(2025, 11, 2)}

\* the dates that may have a daily file
FileDates == {Date(2025, 10, 27), Date(2025, 10, 28), Date(2025, 11, 1)}

RecA == Obj(Num(2), Num(1), Num(0), TRUE, Num(20), Num(40), Undef, Undef)
RecB == Obj(Num(1), Num(0), Num(3), TRUE, Num(0), Undef, Undef, Num(55))
RecC == Obj(Undef, Num(1), Num(0), FALSE, Undef, Undef, Undef, Undef)

\* a record carrying both forms of the dB reading, with different values
RecD == Obj(Num(1), Num(1), Num(1), TRUE, Num(10), Num(30), Undef, Num(70))

\* a record whose avg_sensor_day holds a dB reading but no temperature
RecE == Obj(Num(1), Num(0), Num(0), TRUE, Undef, Num(40), Undef, Undef)

Answers == {NotFound, NetErr, BadJson, ErrJson(EmptyObj), Ok(RecA), Ok(RecB), Ok(RecC)}

\* the number of user clicks of a session
MaxClicks == 1

\* the request paths of the daily files of FileDates in the folder dir
DatedPaths(dir) == {DatedPath(dir, d.y, padZero(d.m), padZero(d.d)) : d \in FileDates}

\* the folder a page reads before any click
HomeDir(p) ==
    CASE p = "app" -> <<BASE_DATA_PATH, devicesList[1]>>
      [] p = "v2" -> getBasePathForDepartment(departmentFolders[1])
      [] p = "v1" -> v1getBasePathForDepartment("allgemein")

\* the served files of a session: answers for the three dates of FileDates,
\* and for the folder's own totals.json
FileSystem(dir, a1, a2, a3, fb) ==
    [url \in DatedPaths(dir) \cup {BasePath(dir)} |->
        CASE url = DatedPath(dir, 2025, padZero(10), padZero(27)) -> a1
          [] url = DatedPath(dir, 2025, padZero(10), padZero(28)) -> a2
          [] url = DatedPath(dir, 2025, padZero(11), padZero(1)) -> a3
          [] OTHER -> fb]

\* every day of the week with every answer on its Monday; one Wednesday with
\* every answer on its Monday and Tuesday; the two November days with a file
\* on the first of November
Sessions ==
    {[today |-> t, a1 |-> a1, a2 |-> NotFound, a3 |-> NotFound] :
        t \in Todays, a1 \in Answers}
    \cup
    {[today |-> Date(2025, 10, 29), a1 |-> a1, a2 |-> a2, a3 |-> NotFound] :
        a1 \in Answers, a2 \in Answers}
    \cup
    {[today |-> t, a1 |-> Ok(RecA), a2 |-> Ok(RecB), a3 |-> a3] :
        t \in {Date(2025, 11, 1), Date(2025, 11, 2)}, a3 \in {Ok(RecC), NetErr}}
    \cup
    {[today |-> Date(2025, 10, 27), a1 |-> a1, a2 |-> NotFound, a3 |-> NotFound] :
        a1 \in {Ok(RecD), Ok(RecE)}}

\* the page before its scripts have run: the texts of the markup, the chart
\* data of the page's chart set-up; myChart says that the markup has the
\* canvas of the bar chart
InitialUi(p) ==
    [bar |-> IF p = "app" THEN <<Num(0), Num(0), Num(0)>> ELSE <<>>,
     barDatasets0 |-> <<>>,
     line |-> IF p = "app" THEN <<>> ELSE lineDatasets[1],
     labels |-> IF p = "app" THEN <<>>
                ELSE <<Label("Gut", 0), Label("Meh", 0), Label("Schlecht", 0)>>,
     good |-> Str(<<>>), meh |-> Str(<<>>), bad |-> Str(<<>>), votes |-> Str(<<>>),
     laut |-> {}, lautText |-> [db |-> <<>>, name |-> NoLabel],
     luft |-> {}, loader |-> "none", myChart |-> TRUE]

PageInit(p, sessions, fallbacks) ==
    /\ page = p
    /\ \E s \in sessions, fb \in fallbacks :
          /\ today = s.today
          /\ files = FileSystem(HomeDir(p), s.a1, s.a2, s.a3, fb)
    /\ domReady = FALSE
    /\ currentTimeRange = "now"
    /\ currentDevice = IF p = "app" THEN devicesList[1] ELSE ""
    /\ currentDepartment = IF p = "v1" THEN "allgemein" ELSE ""
    /\ fetchCache = <<>>
    /\ ui = InitialUi(p)
    /\ runs = <<>>
    /\ timers = <<>>
    /\ clicks = 0

Init ==
    \/ PageInit("app", Sessions, {NotFound})
    \/ PageInit("v2", Sessions, {NotFound, Ok(RecA)})
    \/ PageInit("v1", Sessions, {NotFound})

\* the user acts between runs
Idle == runs = <<>> /\ timers = <<>> /\ clicks < MaxClicks

\* a timer fires between runs
Quiet == runs = <<>>

Next ==
    \/ appDOMContentLoaded
    \/ \E index \in 0..4 : Idle /\ appClickRange(index)
    \/ \E dev \in {devicesList[1]} : Idle /\ appClickDevice(dev)
    \/ \E i \in 1..Len(runs) : appResume(i)
    \/ \E dataLoaderFirst \in BOOLEAN : v2DOMContentLoaded(dataLoaderFirst)
    \/ \E index \in 0..4 : Idle /\ v2ClickRange(index)
    \/ \E i \in 1..Len(departmentFolders) : Idle /\ v2ClickDevice(departmentFolders[i])
    \/ \E i \in 1..Len(runs) : v2Resume(i)
    \/ \E i \in 1..Len(runs) : lautResume(i)
    \/ \E k \in 1..Len(timers) : Quiet /\ v2Timer(k)
    \/ v1DOMContentLoaded
    \/ \E index \in 0..4 : Idle /\ v1ClickRange(index)
    \/ \E index \in 1..Len(departments) : Idle /\ v1ClickDepartment(index)
    \/ \E i \in 1..Len(runs) : v1Resume(i)
    \/ \E i \in 1..Len(runs) : v1lautResume(i)
    \/ \E k \in 1..Len(timers) : Quiet /\ v1Timer(k)

Spec == Init /\ [][Next]_vars

(***************************************************************************)
(* The resolved dates of a range and what the served files hold for them.  *)
(***************************************************************************)
\* the first and the last date of a range: Monday .. today, the whole
\* current month, the whole current year
RangeFirst(range) ==
    CASE range = "week" -> MondayOf(today)
      [] range = "month" -> Date(today.y, today.m, 1)
      [] range = "year" -> Date(today.y, 1, 1)
      [] OTHER -> today

RangeLast(range) ==
    CASE range = "week" -> today
      [] range = "month" -> Date(today.y, today.m, DaysInMonth(today.y, today.m))
      [] range = "year" -> Date(today.y, 12, 31)
      [] OTHER -> today

\* the daily file of date d in folder dir was loaded: answered 2xx with a
\* JSON object
FileLoaded(dir, d) ==
    LET resp == Server(DatedPath(dir, d.y, padZero(d.m), padZero(d.d)))
    IN Loaded(resp) /\ resp.doc.k = "obj"

FileOf(dir, d) == Server(DatedPath(dir, d.y, padZero(d.m), padZero(d.d))).doc.o

\* the numeric value of a field, 0 when the field is not a number
NumberOrZero(v) == IF IsNumber(v) THEN v.n ELSE 0

RECURSIVE SumField(_, _, _, _)
\* the sum of field f over the loaded files of the dates d .. last
SumField(dir, d, last, f) ==
    IF ~DateLE(d, last) THEN 0
    ELSE (IF FileLoaded(dir, d) THEN NumberOrZero(FileOf(dir, d)[f]) ELSE 0)
         + SumField(dir, NextDate(d), last, f)

\* the app is at rest showing the result of the loader of range
appShows(range) ==
    /\ page = "app"
    /\ domReady
    /\ runs = <<>>
    /\ currentTimeRange = range

appDir == <<BASE_DATA_PATH, currentDevice>>

\* C1: after loadWeekRange, loadMonthRange or loadYearRange of the app, the
\* totals handed to the display are the field-wise sums of good, meh and bad
\* over the resolved dates whose file was loaded; a date without a loaded
\* file adds 0.
C1_TotalsAreSums ==
    \A range \in {"week", "month", "year"} :
        appShows(range) =>
            ui.bar = << Num(SumField(appDir, RangeFirst(range), RangeLast(range), "good")),
                        Num(SumField(appDir, RangeFirst(range), RangeLast(range), "meh")),
                        Num(SumField(appDir, RangeFirst(range), RangeLast(range), "bad")) >>

\* a month run over a month with two loaded files and 29 dates without one
C1_Witness ==
    /\ appShows("month")
    /\ today = Date(2025, 10, 29)
    /\ FileLoaded(appDir, Date(2025, 10, 27))
    /\ FileLoaded(appDir, Date(2025, 10, 28))
    /\ ~FileLoaded(appDir, Date(2025, 10, 29))
    /\ ui.bar = <<Num(3), Num(1), Num(3)>>

\* the fixed number of labels of a range
LabelCount(range) ==
    CASE range \in {"now", "day"} -> 24
      [] range = "week" -> 7
      [] range = "month" -> DaysInMonth(today.y, today.m)
      [] range = "year" -> 12

\* C2: for every range, every weekday of today and every pattern of missing
\* files, the series the loaders of the app pass to the display has as many
\* values as the label list of the range: 24 for day, 7 for week, the days of
\* the current month for month, 12 for year.
C2_SeriesLengthIsLabelCount ==
    \A index \in 1..Len(ranges) :
        appShows(ranges[index]) =>
            /\ Len(ui.line) = LabelCount(ranges[index])
            /\ Len(ui.labels) = LabelCount(ranges[index])

\* a week run on a Monday, whose only file is missing: one date resolved,
\* seven values shown
C2_Witness ==
    /\ appShows("week")
    /\ today = Date(2025, 10, 27)
    /\ ~FileLoaded(appDir, today)
    /\ Len(ui.line) = 7
    /\ Len(ui.labels) = 7

\* the dB reading of a record: the nested one when it is a number, else the
\* top-level one when it is a number
HasDbReading(o) == IsNumber(NestedDb(o)) \/ IsNumber(o.db)

DbReading(o) == IF IsNumber(NestedDb(o)) THEN NestedDb(o).n ELSE o.db.n

RECURSIVE SumDb(_, _, _)
\* the sum of the dB readings of the loaded files of the dates d .. last
SumDb(dir, d, last) ==
    IF ~DateLE(d, last) THEN 0
    ELSE (IF FileLoaded(dir, d) /\ HasDbReading(FileOf(dir, d))
          THEN DbReading(FileOf(dir, d)) ELSE 0)
         + SumDb(dir, NextDate(d), last)

RECURSIVE CountDb(_, _, _)
\* the number of loaded files of the dates d .. last with a dB reading
CountDb(dir, d, last) ==
    IF ~DateLE(d, last) THEN 0
    ELSE (IF FileLoaded(dir, d) /\ HasDbReading(FileOf(dir, d)) THEN 1 ELSE 0)
         + CountDb(dir, NextDate(d), last)

\* the rounded mean of the dB readings of the dates d .. last, 0 without any
MeanDb(dir, d, last) ==
    IF CountDb(dir, d, last) > 0
    THEN RoundDiv(SumDb(dir, d, last), CountDb(dir, d, last))
    ELSE 0

\* the average temperature of the file of date d, 0 without file or value
TempOf(dir, d) ==
    IF FileLoaded(dir, d) THEN NumberOrZero(NestedTemp(FileOf(dir, d))) ELSE 0

RECURSIVE PlusDays(_, _)
\* the date k days after dt, k >= 0
PlusDays(dt, k) == IF k = 0 THEN dt ELSE PlusDays(NextDate(dt), k - 1)

\* today is Wednesday 2025-10-29 and only Monday's file exists, holding
\* good 2, meh 1, bad 0, temp 20, db 40
C3_Instance ==
    /\ today = Date(2025, 10, 29)
    /\ Server(DatedPath(appDir, 2025, padZero(10), padZero(27))) = Ok(RecA)
    /\ ~FileLoaded(appDir, Date(2025, 10, 28))
    /\ ~FileLoaded(appDir, Date(2025, 10, 29))

\* C3: in week scope of the app, series entry k (k = 0 is Monday) is the
\* average temperature of the file of Monday + k when that date is not after
\* today and its file exists, and 0 otherwise; the noise average is the
\* rounded mean of the dB readings of the files that exist.  With today a
\* Wednesday and only Monday's file {good 2, meh 1, bad 0, temp 20, db 40}:
\* totals (2, 1, 0), series [20, 0, 0, 0, 0, 0, 0], avgDb 40.
C3_WeekSeriesAndNoise ==
    appShows("week") =>
        /\ ui.line = [k \in 1..7 |->
                        LET d == PlusDays(MondayOf(today), k - 1)
                        IN IF DateLE(d, today) THEN Num(TempOf(appDir, d)) ELSE Num(0)]
        /\ ui.lautText.db = Digits(MeanDb(appDir, MondayOf(today), today))
        /\ C3_Instance =>
              /\ ui.bar = <<Num(2), Num(1), Num(0)>>
              /\ ui.line = <<Num(20), Num(0), Num(0), Num(0), Num(0), Num(0), Num(0)>>
              /\ ui.lautText.db = Digits(40)

\* the instance of the claim has been shown
C3_Witness ==
    /\ appShows("week")
    /\ C3_Instance
    /\ ui.line[1] = Num(20)
    /\ ui.lautText = [db |-> Digits(40), name |-> "Sprechen"]

\* no request of the session can be answered with data: every served file
\* fails, the folder's own totals.json included
NoData == \A url \in DOMAIN files : ~Loaded(files[url])

\* the page is at rest: no loader is running and no timer is pending
AtRest == domReady /\ runs = <<>> /\ timers = <<>>

\* C4: if no date of the resolved range has data (every per-date fetch fails
\* and no fallback file exists), every averaged value the loaders produce
\* (the noise average, each monthly temperature average of the year series,
\* every temperature series entry) is exactly the number 0, never NaN or
\* undefined.
C4_NoDataGivesZero ==
    (AtRest /\ NoData /\ (page = "v1" => currentTimeRange \in {"week", "month", "year"})) =>
        /\ \A k \in 1..Len(ui.line) : ui.line[k] = Num(0)
        /\ Len(ui.line) >= 1
        /\ ui.lautText.db = Digits(0)

\* a year run of dataLoader.js and a run of loadLautstaerke over a year
\* without any data, all twelve monthly averages 0
C4_Witness ==
    /\ AtRest
    /\ NoData
    /\ page = "v2"
    /\ currentTimeRange = "year"
    /\ ui.line = Fill(12, Num(0))
    /\ ui.lautText.db = Digits(0)

RECURSIVE AnyLoaded(_, _, _)
\* some date of d .. last has a loaded file in folder dir
AnyLoaded(dir, d, last) ==
    DateLE(d, last) /\ (FileLoaded(dir, d) \/ AnyLoaded(dir, NextDate(d), last))

\* the range a run of Kirill_Website2.0.1 goes through
RunRange(r) == IF r.fn = "loadLautstaerke" THEN r.range ELSE v2RangeOf(r.fn)

\* C5: the department-level fallback file is requested by loadWeekData,
\* loadMonthData, loadYearData and loadLautstaerke only when no per-date file
\* of the resolved range was loaded.
C5_FallbackOnlyWithoutData ==
    \A i \in 1..Len(runs) :
        (page = "v2" /\ runs[i].phase = "fallback") =>
            ~AnyLoaded(getBasePathForDepartment(currentDepartment),
                       RangeFirst(RunRange(runs[i])), RangeLast(RunRange(runs[i])))

(***************************************************************************)
(* Overlapping runs: the user clicks while loaders are in flight, timers   *)
(* fire at any time, and the awaited requests complete in any order.       *)
(***************************************************************************)
\* a Tuesday, its Monday and itself with or without a file
RaceSessions ==
    {[today |-> Date(2025, 10, 28), a1 |-> a1, a2 |-> a2, a3 |-> NotFound] :
        a1 \in {NotFound, Ok(RecA)}, a2 \in {NotFound, Ok(RecB)}}

RaceInit ==
    \/ PageInit("app", RaceSessions, {NotFound})
    \/ PageInit("v2", RaceSessions, {NotFound, Ok(RecA)})

\* the user may click whatever is in flight
MayClick == clicks < MaxClicks

RaceNext ==
    \/ appDOMContentLoaded
    \/ \E index \in {0, 2} : MayClick /\ appClickRange(index)
    \/ \E dev \in {devicesList[1]} : MayClick /\ appClickDevice(dev)
    \/ \E i \in 1..Len(runs) : appResume(i)
    \/ \E dataLoaderFirst \in BOOLEAN : v2DOMContentLoaded(dataLoaderFirst)
    \/ \E index \in {0, 2} : MayClick /\ v2ClickRange(index)
    \/ \E i \in 1..2 : MayClick /\ v2ClickDevice(departmentFolders[i])
    \/ \E i \in 1..Len(runs) : v2Resume(i)
    \/ \E i \in 1..Len(runs) : lautResume(i)
    \/ \E k \in 1..Len(timers) : v2Timer(k)

RaceSpec == RaceInit /\ [][RaceNext]_vars

\* C6: a range or device change made while an earlier aggregation is in
\* flight does not abort the earlier run: every run in flight before the
\* click is in flight, unchanged, after it.  (That a stale run can finish
\* last and leave its result on the display is the reachable state
\* C6_Witness.)
C6_ClickDoesNotAbort ==
    [][clicks' # clicks =>
          /\ Len(runs) >= 1 => Len(runs') > Len(runs)
          /\ Len(runs') >= Len(runs)
          /\ SubSeq(runs', 1, Len(runs)) = runs]_vars

\* every run has finished, the week run before the initial day run: the page
\* shows the 24 hourly values of "now" while the selected range is "week"
C6_Witness ==
    /\ AtRest
    /\ clicks >= 1
    /\ currentTimeRange = "week"
    /\ Len(ui.labels) = 24
    /\ ui.loader = "none"

\* the range a run of any page goes through
RangeOfRun(r) ==
    CASE r.fn = "loadLautstaerke" -> r.range
      [] r.fn \in {"loadWeekRange", "loadWeekData"} -> "week"
      [] r.fn \in {"loadMonthRange", "loadMonthData"} -> "month"
      [] r.fn \in {"loadYearRange", "loadYearData"} -> "year"
      [] OTHER -> "day"

\* the folder the requests of run r go to
DirOfRun(r) ==
    CASE page = "app" -> <<BASE_DATA_PATH, r.dev>>
      [] page = "v2" -> getBasePathForDepartment(currentDepartment)
      [] page = "v1" -> v1getBasePathForDepartment(currentDepartment)

\* this step is the completion of the awaited request of run i
Stepped(i) ==
    /\ clicks' = clicks
    /\ domReady' = domReady
    /\ timers' = timers
    /\ \/ runs' = RemoveAt(runs, i)
       \/ Len(runs') = Len(runs) /\ runs'[i] # runs[i]

\* C7: whatever the answer to the request for a date (network error, non-2xx
\* response, malformed JSON or a record), a loader that loops over a range
\* goes on to request the next date of the range, in order, and after the
\* last date it reaches its display update (dataLoader.js may first ask for
\* the fallback file); a failure never ends the loop early.
C7_LoopSurvivesFailures ==
    [][\A i \in 1..Len(runs) :
          LET r == runs[i]
              range == RangeOfRun(r)
              next == NextDate(r.d)
          IN (Stepped(i) /\ r.phase = "dates" /\ range \in {"week", "month", "year"}) =>
                IF DateLE(next, RangeLast(range))
                THEN /\ Len(runs') = Len(runs)
                     /\ runs'[i].phase = "dates"
                     /\ runs'[i].d = next
                     /\ runs'[i].url = DatedPath(DirOfRun(r), next.y,
                                                 padZero(next.m), padZero(next.d))
                ELSE \/ /\ runs' = RemoveAt(runs, i)
                        /\ IF r.fn = "loadLautstaerke"
                           THEN ui'.lautText.db # <<>>
                           ELSE /\ ui'.labels = getLineLabelsForRange(range)
                                /\ ui'.loader = "none"
                     \/ /\ page = "v2"
                        /\ Len(runs') = Len(runs)
                        /\ runs'[i].phase = "fallback"]_vars

\* a month run of dataLoader.js whose request for the 27th failed on the
\* network went on, loaded the file of the 28th, and reached its update
C7_Witness ==
    /\ AtRest
    /\ page = "v2"
    /\ currentTimeRange = "month"
    /\ today = Date(2025, 10, 29)
    /\ Server(DatedPath(HomeDir("v2"), 2025, padZero(10), padZero(27))) = NetErr
    /\ Server(DatedPath(HomeDir("v2"), 2025, padZero(10), padZero(28))) = Ok(RecB)
    /\ ui.bar = <<Num(1), Num(0), Num(3)>>
    /\ Len(ui.line) = 31

\* the sums of the votes a run has collected so far
VotesOf(r) == <<r.totalGood, r.totalMeh, r.totalBad>>

\* the numerators and denominators of the dB mean of a run
DbOf(r) == <<r.dbSum, r.dbCount, r.totalDb, r.count>>

\* C8: for any single date, a fetch that throws, a response with a non-2xx
\* status (whatever its body) and a 2xx response whose body is not valid JSON
\* all make the date count as no data: it adds 0 to the totals, 0 at its
\* series position, and nothing to the numerator or the denominator of the
\* dB mean.
C8_FailureIsNoData ==
    [][\A i \in 1..Len(runs) :
          LET r == runs[i]
          IN (/\ Stepped(i)
              /\ Len(runs') = Len(runs)
              /\ r.phase = "dates"
              /\ RangeOfRun(r) \in {"week", "month"}
              /\ ~Loaded(Server(r.url))) =>
                /\ VotesOf(runs'[i]) = VotesOf(r)
                /\ DbOf(runs'[i]) = DbOf(r)
                /\ r.fn # "loadLautstaerke" => runs'[i].temps = Append(r.temps, Num(0))]_vars

\* C9: a daily record that was loaded but lacks a numeric good, meh or bad
\* field contributes 0 for that field: the totals of a week or month run
\* stay numbers, the sums of the numeric fields present.
C9_MissingFieldAddsZero ==
    [][\A i \in 1..Len(runs) :
          LET r == runs[i]
              resp == Server(r.url)
          IN (/\ Stepped(i)
              /\ Len(runs') = Len(runs)
              /\ r.phase = "dates"
              /\ r.fn # "loadLautstaerke"
              /\ RangeOfRun(r) \in {"week", "month"}
              /\ Loaded(resp) /\ resp.doc.k = "obj"
              /\ \A k \in 1..3 : IsNumber(VotesOf(r)[k])) =>
                VotesOf(runs'[i]) =
                    << Num(r.totalGood.n + NumberOrZero(resp.doc.o.good)),
                       Num(r.totalMeh.n + NumberOrZero(resp.doc.o.meh)),
                       Num(r.totalBad.n + NumberOrZero(resp.doc.o.bad)) >>]_vars

(***************************************************************************)
(* updateLautstaerkeAnzeige on its own: called with every rounded value    *)
(* from below the lowest band to above the highest.                        *)
(***************************************************************************)
\* how far the values tried reach below 0 and above 200
DbMargin == 60

DbInputs == (0 - DbMargin) .. (200 + DbMargin)

LevelsInit ==
    /\ page = "levels"
    /\ today = Date(2025, 10, 29)
    /\ files = <<>>
    /\ domReady = TRUE
    /\ currentTimeRange = "now"
    /\ currentDevice = ""
    /\ currentDepartment = ""
    /\ fetchCache = <<>>
    /\ ui = InitialUi("app")
    /\ runs = <<>>
    /\ timers = <<>>
    /\ clicks = 0

\* updateLautstaerkeAnzeige(dbValue) is called
ShowLevel(dbValue) ==
    /\ page = "levels"
    /\ ui' = updateLautstaerkeAnzeige(ui, Num(dbValue))
    /\ UNCHANGED <<page, today, files, domReady, currentTimeRange, currentDevice,
                   currentDepartment, fetchCache, runs, timers, clicks>>

\* the scores handed to updateLuftQualitaet: the band edges, the start value
\* of smiley.js, and the values that are no number
AirInputs == {Num(v) : v \in {0, 8, 50, 51, 100, 101, 300}} \cup {NaN, Undef}

\* updateLuftQualitaet(aqi) is called
ShowAir(aqi) ==
    /\ page = "levels"
    /\ ui' = updateLuftQualitaet(ui, aqi)
    /\ UNCHANGED <<page, today, files, domReady, currentTimeRange, currentDevice,
                   currentDepartment, fetchCache, runs, timers, clicks>>

LevelsNext ==
    \/ \E dbValue \in DbInputs : ShowLevel(dbValue)
    \/ \E aqi \in AirInputs : ShowAir(aqi)

LevelsSpec == LevelsInit /\ [][LevelsNext]_vars

\* the label of the band a value lies in
BandName(v) ==
    CASE v \in 0..30 -> "Maus"
      [] v \in 31..50 -> "Sprechen"
      [] v \in 51..70 -> "Musik"
      [] v \in 71..90 -> "Auto"
      [] v \in 91..200 -> "Flugzeug"
      [] OTHER -> NoLabel

BandIcon(v) ==
    CASE v \in 0..30 -> {"icon-maus"}
      [] v \in 31..50 -> {"icon-sprechen"}
      [] v \in 51..70 -> {"icon-musik"}
      [] v \in 71..90 -> {"icon-auto"}
      [] v \in 91..200 -> {"icon-flugzeug"}
      [] OTHER -> {}

\* C10: updateLautstaerkeAnzeige maps a rounded dB value to exactly one label
\* by first match over the inclusive bands Maus 0-30, Sprechen 31-50, Musik
\* 51-70, Auto 71-90, Flugzeug 91-200: every integer 0..200 gets exactly one
\* label and at most one icon is active afterwards; a value outside all bands
\* (250, a negative value) gets no label, only the raw number is shown and no
\* icon is active.
C10_LevelBands ==
    \A v \in DbInputs :
        (page = "levels" /\ ui.lautText.db = Digits(v)) =>
            /\ ui.lautText.name = BandName(v)
            /\ ui.laut = BandIcon(v)
            /\ Cardinality(ui.laut) <= 1
            /\ v \in 0..200 <=> ui.lautText.name # NoLabel
            /\ v \notin 0..200 => ui.laut = {}
            /\ Cardinality({i \in 1..Len(lautstaerkeLevels) :
                               InLevel(lautstaerkeLevels[i], Num(v))})
                  = IF v \in 0..200 THEN 1 ELSE 0

\* 250 dB has been shown: the raw number, no label, no icon
C10_Witness ==
    /\ page = "levels"
    /\ ui.lautText = [db |-> Digits(250), name |-> NoLabel]
    /\ ui.laut = {}

\* the folder the page reads for the current selection
CurrentDir ==
    CASE page = "app" -> <<BASE_DATA_PATH, currentDevice>>
      [] page = "v2" -> getBasePathForDepartment(currentDepartment)
      [] OTHER -> v1getBasePathForDepartment(currentDepartment)

\* C11: the reported noise average of a range is round(S / n), S the sum and
\* n the count of the numeric dB readings of the dates of the whole range
\* whose file was loaded; a date without a file, or whose record has no
\* numeric dB reading, counts in neither; with n = 0 the average is 0.
C11_NoiseAverageIsMeanOfReadings ==
    (AtRest /\ page \in {"app", "v2", "v1"}) =>
        ui.lautText.db = Digits(MeanDb(CurrentDir, RangeFirst(currentTimeRange),
                                       RangeLast(currentTimeRange)))

\* the file of date d in folder dir was loaded and holds a numeric average
\* temperature
HasTemp(dir, d) == FileLoaded(dir, d) /\ IsNumber(NestedTemp(FileOf(dir, d)))

RECURSIVE SumTemp(_, _, _)
\* the sum of the average temperatures of the dates d .. last that have one
SumTemp(dir, d, last) ==
    IF ~DateLE(d, last) THEN 0
    ELSE (IF HasTemp(dir, d) THEN NestedTemp(FileOf(dir, d)).n ELSE 0)
         + SumTemp(dir, NextDate(d), last)

RECURSIVE CountTemp(_, _, _)
\* the number of dates d .. last that have an average temperature
CountTemp(dir, d, last) ==
    IF ~DateLE(d, last) THEN 0
    ELSE (IF HasTemp(dir, d) THEN 1 ELSE 0) + CountTemp(dir, NextDate(d), last)

\* the rounded mean of the available daily average temperatures of month m
\* of this year, 0 when the month has none
MonthMeanTemp(dir, m) ==
    LET first == Date(today.y, m, 1)
        last == Date(today.y, m, DaysInMonth(today.y, m))
    IN IF CountTemp(dir, first, last) > 0
       THEN RoundDiv(SumTemp(dir, first, last), CountTemp(dir, first, last))
       ELSE 0

\* the current folder has no file of its own outside the dated tree
NoDepartmentFile == ~Loaded(Server(BasePath(CurrentDir)))

\* C12: in year scope the series has twelve entries, and entry m is the mean
\* of the daily average temperatures of only those dates of month m that had
\* data (dates without data do not count in the divisor), 0 when no date of
\* month m had data.
C12_YearSeriesIsMonthlyMean ==
    (domReady /\ runs = <<>> /\ currentTimeRange = "year" /\ NoDepartmentFile
     /\ page \in {"app", "v2", "v1"}) =>
        /\ Len(ui.line) = 12
        /\ \A m \in 1..12 : ui.line[m] = Num(MonthMeanTemp(CurrentDir, m))

\* the Monday on or before today, found by its weekday
WeekStart == CHOOSE d \in {MinusDays(today, k) : k \in 0..6} : GetDay(d) = 1

\* the loaders of the week scope
WeekLoaders == {"loadWeekRange", "loadWeekData"}

\* the number of dates a week loader asks for
WeekRequests == ((GetDay(today) + 6) % 7) + 1

\* C13: in week scope, for every weekday of today, the per-date requests go
\* to exactly the dates from the Monday of the current week through today,
\* in increasing order: ((getDay() + 6) mod 7) + 1 requests, the first for
\* Monday, the last for today, none for a later date.
C13_WeekRequestsMondayToToday ==
    /\ [](\A i \in 1..Len(runs) :
            LET r == runs[i]
            IN (r.fn \in WeekLoaders /\ r.phase = "dates") =>
                  /\ r.d = PlusDays(WeekStart, Len(r.temps))
                  /\ DateLE(r.d, today)
                  /\ r.url = DatedPath(DirOfRun(r), r.d.y, padZero(r.d.m), padZero(r.d.d)))
    /\ [][\A i \in 1..Len(runs) :
            LET r == runs[i]
            IN (Stepped(i) /\ r.fn \in WeekLoaders /\ r.phase = "dates"
                /\ (runs' = RemoveAt(runs, i) \/ runs'[i].phase # "dates")) =>
                  /\ r.d = today
                  /\ Len(r.temps) + 1 = WeekRequests]_vars

\* on a Sunday a week loader has asked for the six dates Monday..Saturday and
\* its seventh request, for today, is outstanding
C13_Witness ==
    /\ GetDay(today) = 0
    /\ \E i \in 1..Len(runs) :
          /\ runs[i].fn \in WeekLoaders
          /\ runs[i].phase = "dates"
          /\ runs[i].d = today
          /\ Len(runs[i].temps) = 6

\* C14: loadWeekData of dataLoader.js hands the display a series of exactly
\* seven values for every weekday of today and every pattern of missing
\* files, the positions of the days after today padded with 0, so that the
\* series is as long as the seven week labels handed over with it.
C14_WeekDataHasSevenValues ==
    (page \in {"v2", "v1"} /\ domReady /\ runs = <<>> /\ currentTimeRange = "week") =>
        /\ Len(ui.labels) = 7
        /\ Len(ui.line) = 7
        /\ \A k \in (WeekRequests + 1)..7 : ui.line[k] = Num(0)

\* the record has a numeric dB reading in both forms
HasBothDb(o) == IsNumber(NestedDb(o)) /\ IsNumber(o.db)

\* C15: when a loaded daily record carries a dB reading both nested
\* (avg_sensor_day.db) and at top level (db), the nested one is used for the
\* noise average, on every path that reads a dB reading.
C15_NestedDbPreferred ==
    LET first == RangeFirst(currentTimeRange)
        last == RangeLast(currentTimeRange)
    IN (/\ AtRest
        /\ page \in {"app", "v2", "v1"}
        /\ FileLoaded(CurrentDir, today)
        /\ HasBothDb(FileOf(CurrentDir, today))
        /\ CountDb(CurrentDir, first, last) = 1) =>
            ui.lautText.db = ToStr(NestedDb(FileOf(CurrentDir, today)))

(***************************************************************************)
(* The cache of fetchJson while the served files change: loaders overlap   *)
(* and the file of today is written once more by the device.               *)
(***************************************************************************)
\* a 2xx response whose body is the JSON text null
OkNull == Response(FALSE, TRUE, TRUE, JsNull)

CacheSessions ==
    {[today |-> Date(2025, 10, 28), a1 |-> a1, a2 |-> a2, a3 |-> NotFound] :
        a1 \in {NotFound, Ok(RecA)}, a2 \in {NotFound, Ok(RecA), OkNull}}

CacheInit == PageInit("app", CacheSessions, {NotFound})

TodaysFile == DatedPath(HomeDir("app"), today.y, padZero(today.m), padZero(today.d))

\* the device uploads the record of today once more: the served file changes
Upload ==
    /\ files[TodaysFile] # Ok(RecB)
    /\ files' = [files EXCEPT ![TodaysFile] = Ok(RecB)]
    /\ UNCHANGED <<page, today, domReady, currentTimeRange, currentDevice,
                   currentDepartment, fetchCache, ui, runs, timers, clicks>>

CacheNext ==
    \/ appDOMContentLoaded
    \/ \E index \in {1, 2} : MayClick /\ appClickRange(index)
    \/ \E dev \in {devicesList[1]} : MayClick /\ appClickDevice(dev)
    \/ \E i \in 1..Len(runs) : appResume(i)
    \/ Upload

CacheSpec == CacheInit /\ [][CacheNext]_vars

\* in this step run i has called fetchJson: a loader started, or went on to
\* its next date
Called(i) ==
    \/ Len(runs') = Len(runs) + 1 /\ i = Len(runs')
    \/ Len(runs') = Len(runs) /\ runs'[i] # runs[i]

\* an entry appears in the cache only when a request for its path succeeded
StoredOnlyOnSuccess ==
    \A url \in DOMAIN fetchCache' \ DOMAIN fetchCache :
        \E i \in 1..Len(runs) :
            /\ Stepped(i)
            /\ runs[i].url = url
            /\ ~runs[i].hit
            /\ Loaded(Server(url))
            /\ fetchCache'[url] = Server(url).doc

\* an entry is never removed or replaced
EntryKept ==
    \A url \in DOMAIN fetchCache :
        url \in DOMAIN fetchCache' /\ fetchCache'[url] = fetchCache[url]

\* a call for a path that has an entry is answered with the entry, without a
\* request
CachedIsReturned ==
    \A i \in 1..Len(runs') :
        (Called(i) /\ runs'[i].url \in DOMAIN fetchCache') =>
            runs'[i].hit /\ runs'[i].got = fetchCache'[runs'[i].url]

\* C16: the cache of fetchJson gets a value for a path only after a
\* successful (2xx, parsed) response; once a path has a cached value every
\* later call for it returns that value without a request, and the entry is
\* never removed or replaced while the page lives, also when two loaders
\* that need the same path overlap.
C16_CacheEntryIsFinal ==
    [][StoredOnlyOnSuccess /\ EntryKept /\ CachedIsReturned]_vars

\* the one outstanding request of run r is the request for its loop date
AwaitsLoopDate(r) ==
    /\ r.url.dated
    /\ r.url.y = r.d.y
    /\ r.url.m = padZero(r.d.m)
    /\ r.url.d = padZero(r.d.d)

\* C17: within one loader run the per-date requests are strictly sequential:
\* the loop stands at the date of the outstanding request until it completes,
\* the request for the next date is issued in the step that completes the
\* previous one, by that run alone; concurrency arises only between
\* different runs.
C17_RequestsSequentialWithinRun ==
    /\ [](\A i \in 1..Len(runs) : runs[i].phase = "dates" => AwaitsLoopDate(runs[i]))
    /\ [][/\ Len(runs') > Len(runs) => SubSeq(runs', 1, Len(runs)) = runs
          /\ Len(runs') < Len(runs) => \E i \in 1..Len(runs) : runs' = RemoveAt(runs, i)
          /\ \A i \in 1..Len(runs) :
                (Len(runs') = Len(runs) /\ runs'[i] # runs[i]) =>
                   /\ \A j \in 1..Len(runs) : j # i => runs'[j] = runs[j]
                   /\ (runs[i].phase = "dates" /\ runs'[i].phase = "dates") =>
                         runs'[i].d = NextDate(runs[i].d)]_vars

\* two runs are in flight at once, each with its one request outstanding,
\* and loadLautstaerke has gone on from Monday's request to today's
C17_Witness ==
    \E i, j \in 1..Len(runs) :
        /\ i # j
        /\ runs[i].fn = "loadLautstaerke"
        /\ runs[i].phase = "dates"
        /\ runs[i].range = "week"
        /\ runs[i].d = today
        /\ runs[j].phase = "dates"
        /\ AwaitsLoopDate(runs[i]) /\ AwaitsLoopDate(runs[j])

(***************************************************************************)
(* lautstaerke.js on a page whose dataLoader.js did not load: the globals  *)
(* currentTimeRange and currentDepartment are declared by no script.       *)
(***************************************************************************)
LautOnlyInit(p) ==
    /\ page = p
    /\ \E s \in RaceSessions :
          /\ today = s.today
          /\ files = FileSystem(HomeDir(p), s.a1, s.a2, s.a3, NotFound)
    /\ domReady = FALSE
    /\ currentTimeRange = Undeclared
    /\ currentDevice = ""
    /\ currentDepartment = Undeclared
    /\ fetchCache = <<>>
    /\ ui = InitialUi(p)
    /\ runs = <<>>
    /\ timers = <<>>
    /\ clicks = 0

\* the DOMContentLoaded handler of lautstaerke.js alone: loadLautstaerke()
lautDOMContentLoaded ==
    /\ page \in {"v2", "v1"}
    /\ currentTimeRange = Undeclared
    /\ ~domReady
    /\ domReady' = TRUE
    /\ Starts(IF page = "v2"
              THEN loadLautstaerke(Started, TRUE, currentTimeRange, currentDepartment)
              ELSE v1loadLautstaerke(Started, 0, currentTimeRange, currentDepartment))
    /\ UNCHANGED <<page, today, files, currentTimeRange, currentDevice,
                   currentDepartment, fetchCache, clicks>>

\* a click on a cell of the time bar or a row of the sidebar: the listener of
\* lautstaerke.js sets its timer, setTimeout(loadLautstaerke, 600)
lautClick ==
    /\ page \in {"v2", "v1"}
    /\ currentTimeRange = Undeclared
    /\ domReady
    /\ clicks' = clicks + 1
    /\ timers' = Append(timers, LautTimer(TRUE))
    /\ UNCHANGED <<page, today, files, domReady, currentTimeRange, currentDevice,
                   currentDepartment, fetchCache, ui, runs>>

RetryInit ==
    \/ PageInit("v2", RaceSessions, {NotFound, Ok(RecA)})
    \/ LautOnlyInit("v2")
    \/ LautOnlyInit("v1")

RetryNext ==
    \/ \E dataLoaderFirst \in BOOLEAN :
          currentTimeRange # Undeclared /\ v2DOMContentLoaded(dataLoaderFirst)
    \/ \E i \in 1..Len(runs) : v2Resume(i)
    \/ \E i \in 1..Len(runs) : lautResume(i)
    \/ \E k \in 1..Len(timers) : v2Timer(k)
    \/ \E k \in 1..Len(timers) : v1Timer(k)
    \/ lautDOMContentLoaded
    \/ MayClick /\ lautClick

RetrySpec == RetryInit /\ [][RetryNext]_vars

\* C18: when loadLautstaerke starts while the selection (current time range,
\* current device) is not yet initialised it schedules at most one delayed
\* re-attempt; a re-attempt that still finds it missing gives up without
\* scheduling another, so the chain of re-attempts ends; and no fetch is
\* retried: a run never asks again for the path it has just asked for.
C18_AtMostOneReattempt ==
    /\ [](\A k \in 1..Len(timers) : timers[k].attempt <= 1)
    /\ [][\A i \in 1..Len(runs) :
            (Len(runs') = Len(runs) /\ runs'[i] # runs[i]) =>
                runs'[i].url # runs[i].url]_vars

\* C19: when no daily file and no fallback file can be loaded for the
\* selected scope, the run still completes and replaces the display with
\* totals 0/0/0 and an all-zero series of the scope's label count; nothing
\* blocks, and the totals and series shown before do not stay on screen.
C19_NoDataShowsZeros ==
    (page \in {"app", "v2", "v1"} /\ domReady /\ runs = <<>> /\ NoData) =>
        /\ ui.loader = "none"
        /\ ui.bar = <<Num(0), Num(0), Num(0)>>
        /\ Len(ui.line) = LabelCount(currentTimeRange)
        /\ \A k \in 1..Len(ui.line) : ui.line[k] = Num(0)

\* a renderer has written the total fields
RendererActed == ui.votes # InitialUi(page).votes

\* C20: after every display update by a renderer (updateChartAndHTML,
\* updateChartsAndUI, updateCharts) the text of total-votes is the sum of the
\* values shown in total-good, total-moderate and total-bad, and those three
\* are the data of the bar chart, after any sequence of clicks and loads.
C20_VotesIsSumOfShownTotals ==
    (page \in {"app", "v2", "v1"} /\ RendererActed) =>
        /\ ui.votes = Text(JsAdd(JsAdd(ToNumber(ui.good), ToNumber(ui.meh)),
                                 ToNumber(ui.bad)))
        /\ Len(ui.bar) = 3
        /\ ui.good = Text(ui.bar[1])
        /\ ui.meh = Text(ui.bar[2])
        /\ ui.bad = Text(ui.bar[3])

\* the record a day loader uses for today: the file of today, else (on
\* Kirill_Website2.0.1) the folder's own totals.json, else none
DayRecordLoaded ==
    \/ FileLoaded(CurrentDir, today)
    \/ page = "v2" /\ Loaded(Server(BasePath(CurrentDir)))
       /\ Server(BasePath(CurrentDir)).doc.k = "obj"

DayRecord ==
    IF FileLoaded(CurrentDir, today) THEN FileOf(CurrentDir, today)
    ELSE Server(BasePath(CurrentDir)).doc.o

\* C21: in day/now scope the series handed to the display has exactly 24
\* entries, all equal to the average temperature of the single record used
\* for today, 0 when that record has no average temperature or no record was
\* loaded.
C21_DaySeriesIsTodaysTemperature ==
    (page \in {"app", "v2"} /\ domReady /\ runs = <<>>
     /\ currentTimeRange \in {"now", "day"}) =>
        /\ Len(ui.line) = 24
        /\ \A k \in 1..24 :
              ui.line[k] = IF DayRecordLoaded
                           THEN Num(NumberOrZero(NestedTemp(DayRecord)))
                           ELSE Num(0)

\* the band of an air-quality score
AirBand(aqi) ==
    IF aqi.t = "num" /\ aqi.n <= 50 THEN "good"
    ELSE IF aqi.t = "num" /\ aqi.n > 50 /\ aqi.n <= 100 THEN "moderate"
    ELSE "bad"

\* C22: updateLuftQualitaet puts a score into exactly one of three bands,
\* good when score <= 50, moderate when 50 < score <= 100, bad otherwise, and
\* after every call exactly one of the three indicators is active, whatever
\* was active before.
C22_AirQualityBands ==
    [][\A aqi \in AirInputs :
          (page = "levels" /\ ui' = updateLuftQualitaet(ui, aqi)) =>
              /\ ui'.luft = {AirBand(aqi)}
              /\ Cardinality(ui'.luft \cap {"good", "moderate", "bad"}) = 1]_vars

\* the moderate indicator is active after the bad one was: a score of 100
\* was shown after a score of 101 had been
C22_Witness ==
    /\ page = "levels"
    /\ ui.luft = {"moderate"}
    /\ ui.lautText.db = Digits(101)

\* the charts and the total fields
Shown(u) == <<u.bar, u.line, u.labels, u.good, u.meh, u.bad, u.votes>>

\* the loaders of the app and of dataLoader.js that sum over a range
RangeLoaders == {"loadWeekRange", "loadMonthRange", "loadYearRange",
                 "loadWeekData", "loadMonthData", "loadYearData"}

\* C23: a loader run writes to the display only after all of its per-date
\* requests have completed, and then writes totals, series and labels in one
\* step: between its first request and its final update the run changes
\* neither the charts nor the total fields, so no partial sum is visible.
C23_DisplayWrittenOnceAtEnd ==
    [][\A i \in 1..Len(runs) :
          LET r == runs[i]
          IN /\ (Stepped(i) /\ Len(runs') = Len(runs)) => Shown(ui') = Shown(ui)
             /\ (Stepped(i) /\ runs' = RemoveAt(runs, i) /\ r.fn \in RangeLoaders
                 /\ page \in {"app", "v2"}) =>
                   /\ ui'.labels = getLineLabelsForRange(RangeOfRun(r))
                   /\ Len(ui'.bar) = 3
                   /\ ui'.good = Text(ui'.bar[1])
                   /\ ui'.meh = Text(ui'.bar[2])
                   /\ ui'.bad = Text(ui'.bar[3])]_vars

\* a week run of the app has summed Monday's record while the display still
\* shows the zeros of the load before it
C23_Witness ==
    /\ page = "app"
    /\ \E i \in 1..Len(runs) :
          /\ runs[i].fn = "loadWeekRange"
          /\ runs[i].totalGood = Num(2)
          /\ Len(runs[i].temps) >= 1
    /\ ui.bar = <<Num(0), Num(0), Num(0)>>
    /\ ui.good = Str(Digits(0))

\* C24: when loadWeekData, loadMonthData or loadYearData of dataLoader.js use
\* the fallback record, the totals shown are exactly the fallback record's
\* good, meh and bad (the sums over the dates are discarded, not added) and
\* every entry of the series is the fallback record's one average
\* temperature, the same for every bucket.
C24_FallbackReplacesSums ==
    [][\A i \in 1..Len(runs) :
          LET r == runs[i]
              resp == Server(r.url)
              base == resp.doc.o
          IN (/\ page = "v2"
              /\ Stepped(i)
              /\ r.fn \in {"loadWeekData", "loadMonthData", "loadYearData"}
              /\ r.phase = "fallback"
              /\ Loaded(resp) /\ resp.doc.k = "obj") =>
                 /\ runs' = RemoveAt(runs, i)
                 /\ ui'.bar = <<Num(NumberOrZero(base.good)), Num(NumberOrZero(base.meh)),
                                Num(NumberOrZero(base.bad))>>
                 /\ Len(ui'.line) = LabelCount(RangeOfRun(r))
                 /\ \A k \in 1..Len(ui'.line) :
                       ui'.line[k] = Num(NumberOrZero(NestedTemp(base)))]_vars

\* the week held a record with votes 1/0/3 and temperature 0, the fallback
\* record was used: its totals 2/1/0 are shown, seven times its 20 degrees
C24_Witness ==
    /\ page = "v2"
    /\ domReady /\ runs = <<>>
    /\ currentTimeRange = "week"
    /\ \E d \in FileDates :
          /\ DateLE(MondayOf(today), d) /\ DateLE(d, today)
          /\ FileLoaded(CurrentDir, d)
          /\ FileOf(CurrentDir, d) = RecB
    /\ ui.bar = <<Num(2), Num(1), Num(0)>>
    /\ ui.line = Fill(7, Num(20))

\* C25: all requests of one run of loadWeekData, loadMonthData or
\* loadYearData of dataLoader.js (each per-date request and the fallback
\* request) and all requests of one run of loadLautstaerke address the same
\* device folder, even when another device is selected while the run is in
\* flight: the request a run issues next goes to the folder of the request
\* it has just completed.
C25_OneFolderPerRun ==
    [][\A i \in 1..Len(runs) :
          (/\ page = "v2"
           /\ runs[i].fn \in {"loadWeekData", "loadMonthData", "loadYearData",
                              "loadLautstaerke"}
           /\ Len(runs') = Len(runs)
           /\ runs'[i] # runs[i]) =>
              runs'[i].url.dir = runs[i].url.dir]_vars

\* the runs that called showLoader when they started: every loader of the
\* app and of dataLoader.js; loadLautstaerke never touches the overlay
ShowsLoader(r) == r.fn # "loadLautstaerke"

\* C26: whenever at least one aggregation run is in flight (it has called
\* showLoader and has not finished), the loading overlay is displayed; of
\* two overlapping runs only the last to finish hides it.
C26_OverlayWhileInFlight ==
    (/\ page \in {"app", "v2"}
     /\ \E i \in 1..Len(runs) : ShowsLoader(runs[i])) => ui.loader = "flex"

(***************************************************************************)
(* Every request completes: the awaited fetch of a run in flight is        *)
(* answered, so the continuation of some run is taken whenever one is      *)
(* possible.  The page of Kirill_Website is loaded with or without the     *)
(* canvas of the bar chart.                                                *)
(***************************************************************************)
OverlaySessions ==
    {[today |-> Date(2025, 10, 28), a1 |-> a1, a2 |-> NotFound, a3 |-> NotFound] :
        a1 \in {NotFound, Ok(RecA)}}

\* Kirill_Website on a page whose markup has no canvas myChart
NoCanvasInit ==
    /\ page = "v1"
    /\ \E s \in OverlaySessions :
          /\ today = s.today
          /\ files = FileSystem(HomeDir("v1"), s.a1, s.a2, s.a3, NotFound)
    /\ domReady = FALSE
    /\ currentTimeRange = "now"
    /\ currentDevice = ""
    /\ currentDepartment = "allgemein"
    /\ fetchCache = <<>>
    /\ ui = [InitialUi("v1") EXCEPT !.myChart = FALSE]
    /\ runs = <<>>
    /\ timers = <<>>
    /\ clicks = 0

OverlayInit ==
    \/ PageInit("app", OverlaySessions, {NotFound})
    \/ PageInit("v2", OverlaySessions, {NotFound, Ok(RecA)})
    \/ PageInit("v1", OverlaySessions, {NotFound})
    \/ NoCanvasInit

\* the continuation of some run after its awaited request
RequestCompletes ==
    \E i \in 1..Len(runs) :
        appResume(i) \/ v2Resume(i) \/ lautResume(i) \/ v1Resume(i) \/ v1lautResume(i)

OverlaySpec == OverlayInit /\ [][Next]_vars /\ WF_vars(RequestCompletes)

\* C27: every aggregation run that shows the loading overlay eventually
\* hides it, provided each of its requests completes, on every exit path:
\* normal completion, the return after the fallback, the return with all
\* zeros, and an exception thrown while the display is updated.
C27_OverlayEventuallyHidden == (ui.loader = "flex") ~> (ui.loader = "none")

(***************************************************************************)
(* Pages with and without device rows: the sidebar of Kirill_Website2.0.1  *)
(* is built from the device map, or not at all when the page has no        *)
(* table for it.                                                           *)
(***************************************************************************)
DeviceInit ==
    \/ PageInit("app", OverlaySessions, {NotFound})
    \/ PageInit("v2", OverlaySessions, {NotFound, Ok(RecA)})

\* no device is selected
NoDevice == IF page = "app" THEN currentDevice = "" ELSE currentDepartment = ""

DeviceNext ==
    \/ appDOMContentLoaded
    \/ \E index \in 0..4 : Idle /\ appClickRange(index)
    \/ \E dev \in {devicesList[1]} : Idle /\ appClickDevice(dev)
    \/ \E i \in 1..Len(runs) : appResume(i)
    \/ \E dataLoaderFirst \in BOOLEAN : v2DOMContentLoaded(dataLoaderFirst)
    \/ \E dataLoaderFirst \in BOOLEAN : v2DOMContentLoadedNoDevices(dataLoaderFirst)
    \/ \E index \in 0..4 : Idle /\ v2ClickRange(index)
    \/ \E i \in 1..Len(departmentFolders) :
          Idle /\ ~NoDevice /\ v2ClickDevice(departmentFolders[i])
    \/ \E i \in 1..Len(runs) : v2Resume(i)
    \/ \E i \in 1..Len(runs) : lautResume(i)
    \/ \E k \in 1..Len(timers) : Quiet /\ v2Timer(k)

DeviceSpec == DeviceInit /\ [][DeviceNext]_vars

\* the step is the DOMContentLoaded handler
PageLoads == ~domReady /\ domReady'

\* a loader of the dispatcher has been started by the step and is in flight
InitialLoadRuns ==
    /\ Len(runs') > Len(runs)
    /\ \E j \in 1..Len(runs') :
          runs'[j].fn = (IF page = "app" THEN appLoaderOf(currentTimeRange)
                         ELSE v2LoaderOf(currentTimeRange))
    /\ ui'.loader = "flex"

\* C28: loadDataForCurrentRange called while no device is selected issues
\* no request, does not show the loader and leaves charts, total fields
\* and the selection unchanged; once the device list has been built from
\* a non-empty device map the current device is not empty and the initial
\* load runs.
C28_NoDeviceNoLoad ==
    [][/\ ((PageLoads \/ clicks' # clicks) /\ NoDevice /\ NoDevice') =>
              /\ runs' = runs
              /\ ui' = ui
              /\ PageLoads => currentTimeRange' = currentTimeRange
       /\ (appDOMContentLoaded \/ \E b \in BOOLEAN : v2DOMContentLoaded(b)) =>
              /\ ~NoDevice'
              /\ InitialLoadRuns]_vars

\* on a page without device rows a click on "Woche" has changed nothing
\* but the range
C28_Witness ==
    /\ page = "v2"
    /\ domReady
    /\ NoDevice
    /\ clicks > 0
    /\ currentTimeRange = "week"
    /\ runs = <<>>
    /\ ui = InitialUi("v2")

(***************************************************************************)
(* public.js with animated totals (unnamed/part_003): updateCharts starts  *)
(* one interval timer per total field.  Interval timers of one period fire *)
(* in the order in which they were set, so the timers are kept as a queue: *)
(* the head fires and, unless it was cleared, goes to the tail.  current   *)
(* and step are kept multiplied by duration, which makes them integers.    *)
(***************************************************************************)
duration == 500
stepTime == 30

\* the sidebar is clicked at most MaxAnimations times
MaxAnimations == 2

\* common/json/summary.json as it was loaded, or nothing when the request
\* failed
SummaryInputs == {<<>>, <<Num(2), Num(1), Num(0)>>}

totalIds == <<"good", "meh", "bad">>

AnimInit ==
    /\ page = "anim"
    /\ today = Date(2025, 10, 29)
    /\ files = <<>>
    /\ domReady = TRUE
    /\ currentTimeRange = "now"
    /\ currentDevice = ""
    /\ currentDepartment = ""
    /\ fetchCache = <<>>
    /\ \E json \in SummaryInputs :
          ui = IF json = <<>>
               THEN [InitialUi("v1") EXCEPT !.bar = <<Num(0), Num(0), Num(0)>>,
                                            !.barDatasets0 = <<Num(0), Num(0), Num(0)>>]
               ELSE [InitialUi("v1") EXCEPT !.bar = json,
                                            !.barDatasets0 = json,
                                            !.good = Text(json[1]),
                                            !.meh = Text(json[2]),
                                            !.bad = Text(json[3])]
    /\ runs = <<>>
    /\ timers = <<>>
    /\ clicks = 0

\* el.textContent of the total field id
TextOf(u, id) == CASE id = "good" -> u.good [] id = "meh" -> u.meh [] OTHER -> u.bad

SetText(u, id, v) ==
    CASE id = "good" -> [u EXCEPT !.good = v]
      [] id = "meh" -> [u EXCEPT !.meh = v]
      [] OTHER -> [u EXCEPT !.bad = v]

\* parseInt(el.textContent) || 0 of a text of digits
parseIntOrZero(text) ==
    IF text.s # <<>> /\ \A i \in 1..Len(text.s) : text.s[i] \in 0..9
    THEN DigitsValue(text.s) ELSE 0

\* animateNumber(id, target) up to setInterval
animateNumber(u, id, target) ==
    LET start == parseIntOrZero(TextOf(u, id))
    IN [fn |-> "animateNumber", id |-> id, target |-> target,
        current |-> duration * start,
        step |-> stepTime * (target - start)]

\* updateCharts(index): both charts take the data sets of index, and the
\* three totals are animated
animUpdateCharts(index) ==
    LET newBarData == barDatasets(ui)[index + 1]
    IN /\ page = "anim"
       /\ clicks < MaxAnimations
       /\ clicks' = clicks + 1
       /\ ui' = [ui EXCEPT !.bar = newBarData, !.line = lineDatasets[index + 1]]
       /\ timers' = timers \o [k \in 1..3 |->
                                  animateNumber(ui, totalIds[k], newBarData[k].n)]
       /\ UNCHANGED <<page, today, files, domReady, currentTimeRange, currentDevice,
                      currentDepartment, fetchCache, runs>>

\* Math.round(current): the nearest integer, and either neighbour when
\* current lies halfway, where the rounding of the repeated additions decides
Rounded(current) ==
    IF current % duration = duration \div 2
    THEN {current \div duration, current \div duration + 1}
    ELSE {(current + duration \div 2) \div duration}

\* the callback of the interval timer at the head of the queue
animTick ==
    /\ page = "anim"
    /\ timers # <<>>
    /\ LET t == timers[1]
           current == t.current + t.step
           done == \/ t.step > 0 /\ current >= duration * t.target
                   \/ t.step < 0 /\ current <= duration * t.target
       IN IF done
          THEN /\ timers' = Tail(timers)
               /\ ui' = SetText(ui, t.id, Text(Num(t.target)))
          ELSE /\ timers' = Append(Tail(timers), [t EXCEPT !.current = current])
               /\ \E v \in Rounded(current) : ui' = SetText(ui, t.id, Text(Num(v)))
    /\ UNCHANGED <<page, today, files, domReady, currentTimeRange, currentDevice,
                   currentDepartment, fetchCache, runs, clicks>>

AnimNext ==
    \/ \E index \in 0..2 : animUpdateCharts(index)
    \/ animTick

\* time passes: an interval timer that is set fires
AnimSpec == AnimInit /\ [][AnimNext]_vars /\ WF_vars(animTick)

\* C29: for every value shown and every target, animateNumber eventually
\* clears its interval timer and leaves the element showing the target,
\* also when the target is the value already shown and when a second
\* animateNumber on the same element starts before the first has finished
\* (the element ends on the target of the later call).
C29_AnimationEnds ==
    <>[](/\ timers = <<>>
         /\ clicks > 0 =>
               /\ ui.good = Text(ui.bar[1])
               /\ ui.meh = Text(ui.bar[2])
               /\ ui.bad = Text(ui.bar[3]))

(***************************************************************************)
(* devices.js, the client of the page /manage (unnamed/part_004, lines     *)
(* 128-237).  Time is counted in units of TimeUnit milliseconds; a         *)
(* timeout fires when its time has come, and time does not pass it by.     *)
(* The display holds the status text and, for the statements about it, the *)
(* time until which the call that wrote it asked for it to stay.           *)
(***************************************************************************)
TimeUnit == 600

\* showStatus(msg, timeout=3000)
DefaultTimeout == 3000

\* the clock stops at MaxTime, and the buttons are clicked at most
\* MaxStatusClicks times
MaxTime == 12
MaxStatusClicks == 2

StatusInit ==
    /\ page = "manage"
    /\ today = Date(2025, 10, 29)
    /\ files = <<>>
    /\ domReady = FALSE
    /\ currentTimeRange = "now"
    /\ currentDevice = ""
    /\ currentDepartment = ""
    /\ fetchCache = <<>>
    /\ ui = [status |-> "", until |-> 0, now |-> 0]
    /\ runs = <<>>
    /\ timers = <<>>
    /\ clicks = 0

\* showStatus(msg, timeout): the text is written and a timeout is set whose
\* callback compares the text with msg
showStatus(st, msg, timeout) ==
    LET due == st.ui.now + timeout \div TimeUnit
    IN [st EXCEPT !.ui = [st.ui EXCEPT !.status = msg, !.until = due],
                  !.timers = Append(st.timers,
                                    [fn |-> "showStatus", msg |-> msg, due |-> due])]

\* loadDevices() up to its await
loadDevices(st) ==
    LET shown == showStatus(st, "Loading...", DefaultTimeout)
    IN [shown EXCEPT !.runs = Append(shown.runs, [fn |-> "loadDevices"])]

\* DOMContentLoaded of devices.js: the listeners are set, loadDevices()
statusDOMContentLoaded ==
    /\ page = "manage"
    /\ ~domReady
    /\ domReady' = TRUE
    /\ Starts(loadDevices(Started))
    /\ UNCHANGED <<page, today, files, currentTimeRange, currentDevice,
                   currentDepartment, fetchCache, clicks>>

\* a click on btnRefresh
statusClickRefresh ==
    /\ page = "manage"
    /\ domReady
    /\ clicks < MaxStatusClicks
    /\ clicks' = clicks + 1
    /\ Starts(loadDevices(Started))
    /\ UNCHANGED <<page, today, files, domReady, currentTimeRange, currentDevice,
                   currentDepartment, fetchCache>>

\* a click on btnAdd with the id or the name left empty
statusClickAddEmpty ==
    /\ page = "manage"
    /\ domReady
    /\ clicks < MaxStatusClicks
    /\ clicks' = clicks + 1
    /\ Starts(showStatus(Started, "Please enter both id and name", DefaultTimeout))
    /\ UNCHANGED <<page, today, files, domReady, currentTimeRange, currentDevice,
                   currentDepartment, fetchCache>>

\* the awaited apiGetDevices() of run i returns the devices or throws
statusResume(i, ok) ==
    /\ page = "manage"
    /\ i \in 1..Len(runs)
    /\ Starts(LET st == [Started EXCEPT !.runs = RemoveAt(runs, i)]
              IN IF ok THEN showStatus(st, "Loaded", 1200)
                 ELSE showStatus(st, "Failed to load devices: Failed to fetch devices",
                                 6000))
    /\ UNCHANGED <<page, today, files, domReady, currentTimeRange, currentDevice,
                   currentDepartment, fetchCache, clicks>>

\* the callback of the timeout k, whose time has come:
\* if (el.textContent === msg) el.textContent = ''
statusTimeout(k) ==
    /\ page = "manage"
    /\ timers[k].due <= ui.now
    /\ timers' = RemoveAt(timers, k)
    /\ ui' = IF ui.status = timers[k].msg THEN [ui EXCEPT !.status = ""] ELSE ui
    /\ UNCHANGED <<page, today, files, domReady, currentTimeRange, currentDevice,
                   currentDepartment, fetchCache, runs, clicks>>

\* one unit of time passes
statusWait ==
    /\ page = "manage"
    /\ ui.now < MaxTime
    /\ \A k \in 1..Len(timers) : timers[k].due > ui.now
    /\ ui' = [ui EXCEPT !.now = ui.now + 1]
    /\ UNCHANGED <<page, today, files, domReady, currentTimeRange, currentDevice,
                   currentDepartment, fetchCache, runs, timers, clicks>>

StatusNext ==
    \/ statusDOMContentLoaded
    \/ statusClickRefresh
    \/ statusClickAddEmpty
    \/ \E i \in 1..Len(runs), ok \in BOOLEAN : statusResume(i, ok)
    \/ \E k \in 1..Len(timers) : statusTimeout(k)
    \/ statusWait

StatusSpec == StatusInit /\ [][StatusNext]_vars

\* C30: a status message shown by showStatus(msg, t) stays displayed until
\* t has elapsed unless a later showStatus call replaces it: the status is
\* emptied only when the time asked for by the call that wrote the text
\* shown has come, so the timeout of an earlier call never clears the
\* message of a later call, two calls with the same text included.
C30_StatusStaysUntilElapsed ==
    [][(page = "manage" /\ ui.status # "" /\ ui'.status = "") =>
          ui.now >= ui.until]_vars
====
